---- MODULE Spec2Model ----
(***************************************************************************)
(* kousen: the observable tree document model (kousen/core/abstractmodel   *)
(* and kousen/core/undomodel), its commands and the undo log they run on.  *)
(*                                                                         *)
(* Entities are numbered: 0 is the invisible root of the tree mediator,    *)
(* 1..NItems are the AbstractDataTreeItem objects a caller constructs.     *)
(* Python's None is the string "None" where it is a cell value and -1      *)
(* where it is an object reference or a position.                          *)
(***************************************************************************)
EXTENDS Integers, Sequences, FiniteSets, TLC

\* ---------------------------------------------------------------- bounds
\* Items a caller can construct.
NItems == 3
\* Items appended while the mediator is being populated without a log.
MaxInit == 2
\* Longest child sequence.
MaxRows == 3
\* Commands executed through the log.
MaxCmds == 2
\* Longest run of one InsertItemCommand / RemoveItemCommand.
MaxRun == 2
\* Deepest nesting of beginMacro.
MaxMacroDepth == 1
\* Largest column id of a cell store.
MaxCol == 1
\* Direct Entity.setData calls in the cell-store specification.
MaxWrites == 2

\* Commands on the log when the mediator's setData is called.
MaxSetDataLog == 0
\* Longest _result list of a command.
MaxResults == 2

Root == 0
Items == 1..NItems
Entities == 0..NItems
NoParent == -1
Cols == 0..MaxCol

\* Qt.ItemDataRole values used by the model, and AbstractData.FlagRole.
DisplayRole == "DisplayRole"
EditRole == "EditRole"
ToolTipRole == "ToolTipRole"
AccessibleTextRole == "AccessibleTextRole"
FlagRole == "FlagRole"
Roles == {DisplayRole, EditRole, ToolTipRole, AccessibleTextRole, FlagRole}

\* A (role, column) pair that was never written.
Absent == "Absent"
None == "None"
\* Values a caller writes.
Values == {None, "a"}

\* AbstractPropertyItem.Fields
NAME == 0
VALUE == 1

\* The classes of the entities: AbstractDataTreeItem and PropertyItem.
Kinds == {"item", "property"}

\* A PropertyItem whose component set is empty.
NoComponent == "NoComponent"

VARIABLES
    children,   \* AbstractDataTreeItem._children of every entity
    par,        \* QObject parent of every entity (the parent back-reference)
    conn,       \* connections of the entity's dataChanging/dataChanged signals
    store,      \* AbstractDataItem._staticdata._internal of every entity
    created,    \* items constructed so far: 1..created
    itemData,   \* the column values createItem gets in this run
    undostack,  \* whether the mediator has an undo log (_undostack)
    stack,      \* QUndoStack: the command list
    index,      \* QUndoStack: the number of applied commands
    macroDepth, \* QUndoStack: the open macros
    ncmds,      \* commands executed so far
    events,     \* what the last handler did: brackets, attaches, detaches
    raised,     \* the exception the last handler raised ("none": none)
    mark,       \* the state before and after the newest log entry was executed
    last,       \* the last operation and its arguments
    itemClass,  \* the class of every entity
    staticdata, \* the CellStore object every entity holds
    cresult,    \* per log entry, the length of the _result list of each of its commands
    component,  \* PropertyItem: the property's value on the item's components
    nwrites,    \* direct Entity.setData calls so far
    result      \* what the last call returned

vars == <<children, par, conn, store, created, itemData, undostack, stack, index,
          macroDepth, ncmds, events, raised, mark, last, itemClass, staticdata, component, nwrites,
          result, cresult>>

\* Return values: None, a cell value or True, or a list of handles.
ResultValue(v) == [value |-> v, handles |-> <<>>]

ResultNone == ResultValue("None")

ResultTrue == ResultValue("True")

ResultFalse == ResultValue("False")

ResultHandles(hs) == [value |-> "handles", handles |-> hs]

\* ------------------------------------------------------------- CellStore
\* AbstractData._internal: role -> column -> value, Absent where no key is.
EmptyData == [r \in Roles |-> [c \in Cols |-> Absent]]

\* Whether _internal holds a non-empty bucket for the role.
HasBucket(d, role) == \E c \in Cols : d[role][c] # Absent

\* A CellStore.get that forgets the caller's default.
DataGetNoDefault(d, role, column, default) ==
    IF column \in Cols /\ d[role][column] # Absent THEN d[role][column] ELSE None

\* AbstractData.get
DataGet(d, role, column, default) ==
    IF HasBucket(d, role)
    THEN IF column \in Cols /\ d[role][column] # Absent
         THEN d[role][column]
         ELSE default
    ELSE default

\* A CellStore.set that deletes the key when the value is None.
DataSetDeleting(d, role, column, value) ==
    [d EXCEPT ![role] = [@ EXCEPT ![column] = IF value = None THEN Absent ELSE value]]

\* AbstractData.set
DataSet(d, role, column, value) ==
    [d EXCEPT ![role] = [@ EXCEPT ![column] = value]]

\* AbstractData.__len__
DataLen(d) == Cardinality({c \in Cols : d[DisplayRole][c] # Absent})

\* AbstractData.BuildData with the default roles, from a list of column values.
BuildRoles == {ToolTipRole, AccessibleTextRole, DisplayRole, EditRole}

BuildData(rawdata) ==
    [r \in Roles |-> [c \in Cols |->
        IF r \in BuildRoles /\ c + 1 <= Len(rawdata) THEN rawdata[c + 1] ELSE Absent]]

\* AbstractDataItem.data
ItemData(d, id, role) == DataGet(d, role, id, None)

\* AbstractDataItem.setData: the store after the write.
ItemSetData(d, id, value, role) == DataSet(d, role, id, value)

\* AbstractDataItem.size
ItemSize(d) == DataLen(d)

\* The role AbstractDataItem.data / PropertyItem.data reads when the caller
\* gives none, and the role setData writes when the caller gives none.
DataDefaultRole == DisplayRole

SetDataDefaultRole == EditRole

\* PropertyItem.__init__: the name in column NAME, and the flags of an
\* editable property in column VALUE.
PropertyItemData(name) ==
    DataSet(BuildData(<<name>>), FlagRole, VALUE, "ItemIsEditable")

\* PropertyItem.fget: the value all components agree on, None with none.
PropertyFget(comp) == IF comp = NoComponent THEN None ELSE comp

\* PropertyItem.fset: the property of every component gets the value.
PropertyFset(comp, value) == IF comp = NoComponent THEN NoComponent ELSE value

\* PropertyItem.data (Qt.DecorationRole, the one key of roleValues, is not
\* among Roles).
PropertyData(d, comp, id, role) ==
    IF id = VALUE /\ role \in {DisplayRole, EditRole}
    THEN PropertyFget(comp)
    ELSE ItemData(d, id, role)

\* PropertyItem.setData: the store and the components after the call.  The
\* base class is called as setData(id, role): the role is what it stores,
\* under its default role.
PropertySetData(d, comp, id, value, role) ==
    IF id = VALUE /\ role = EditRole
    THEN [store |-> d, component |-> PropertyFset(comp, value)]
    ELSE [store |-> ItemSetData(d, id, role, EditRole), component |-> comp]

\* AbstractDataItem.hasData (PropertyItem inherits it)
HasData(d, id, role) == DataGet(d, role, id, None) # None

\* Qt.ItemFlags: a value of the enum is the set of its bits, written as the
\* names joined by "|".
FlagBits == {"ItemIsSelectable", "ItemIsEditable", "ItemIsEnabled"}

FlagsValue(S) ==
    CASE S = {} -> "NoItemFlags"
      [] S = {"ItemIsSelectable"} -> "ItemIsSelectable"
      [] S = {"ItemIsEditable"} -> "ItemIsEditable"
      [] S = {"ItemIsEnabled"} -> "ItemIsEnabled"
      [] S = {"ItemIsEnabled", "ItemIsSelectable"} -> "ItemIsEnabled|ItemIsSelectable"
      [] S = {"ItemIsEditable", "ItemIsSelectable"} -> "ItemIsEditable|ItemIsSelectable"
      [] S = {"ItemIsEditable", "ItemIsEnabled"} -> "ItemIsEditable|ItemIsEnabled"
      [] S = FlagBits -> "ItemIsEditable|ItemIsEnabled|ItemIsSelectable"

FlagsBits(value) == CHOOSE S \in SUBSET FlagBits : FlagsValue(S) = value

\* a | b and a & ~b of two Qt.ItemFlags values.
FlagsOr(a, b) == FlagsValue(FlagsBits(a) \cup FlagsBits(b))

FlagsAndNot(a, b) == FlagsValue(FlagsBits(a) \ FlagsBits(b))

\* The flags AbstractDataItem.flags falls back to.
DefaultFlags == "ItemIsEnabled|ItemIsSelectable"

\* e.data(id, role) and e.setData(id, value, role) of an entity of class k.
EntityData(k, d, comp, id, role) ==
    IF k = "property" THEN PropertyData(d, comp, id, role) ELSE ItemData(d, id, role)

\* AbstractDataItem.flags: data(id, FlagRole) or the default flags.
EntityFlags(k, d, comp, id) ==
    LET f == EntityData(k, d, comp, id, FlagRole)
    IN  IF f # None /\ f # FlagsValue({}) THEN f ELSE DefaultFlags

\* AbstractDataItem.__getitem__: the outcome of e[id].
EntityGetItem(k, d, comp, id) ==
    IF ~HasData(d, id, DataDefaultRole)
    THEN [raised |-> "IndexError", result |-> ResultNone]
    ELSE [raised |-> "none",
          result |-> ResultValue(EntityData(k, d, comp, id, DataDefaultRole))]

\* What an entity's setData emits and does, in order: the dataChanging
\* signal, the write ("set" into the CellStore, "fset" into the component)
\* and the dataChanged signal, each with the column and role it is given.
Hook(ev, item, id, role) == [ev |-> ev, item |-> item, id |-> id, role |-> role]

\* AbstractDataItem.setData
ItemSetDataHooks(e, id, value, role) ==
    <<Hook("dataChanging", e, id, role), Hook("set", e, id, role),
      Hook("dataChanged", e, id, role)>>

\* PropertyItem.setData: the inherited setData is called with (id, role), so
\* that the role arrives as the value and the role is the default one.
PropertySetDataHooks(e, id, value, role) ==
    IF id = VALUE /\ role = EditRole
    THEN <<Hook("dataChanging", e, id, role), Hook("fset", e, id, role),
           Hook("dataChanged", e, id, role)>>
    ELSE ItemSetDataHooks(e, id, role, SetDataDefaultRole)

EntitySetDataHooks(k, e, id, value, role) ==
    IF k = "property"
    THEN PropertySetDataHooks(e, id, value, role)
    ELSE ItemSetDataHooks(e, id, value, role)

EntitySetData(k, d, comp, id, value, role) ==
    IF k = "property"
    THEN PropertySetData(d, comp, id, value, role)
    ELSE [store |-> ItemSetData(d, id, value, role), component |-> comp]

\* ------------------------------------------------------------ TreeEntity
\* The members of a set of entities or of columns in ascending order: the
\* child sequence appendItem builds when entities are appended in the order
\* they were created, and the keys of a dict filled column by column.
RECURSIVE Ascending(_)
Ascending(S) ==
    IF S = {}
    THEN <<>>
    ELSE LET lo == CHOOSE x \in S : \A y \in S : x <= y
         IN  <<lo>> \o Ascending(S \ {lo})

\* list.index: the first position of the child, -1 for ValueError.
ChildPosition(seq, child) ==
    IF \E i \in 1..Len(seq) : seq[i] = child
    THEN (CHOOSE i \in 1..Len(seq) :
             seq[i] = child /\ \A j \in 1..(i - 1) : seq[j] # child) - 1
    ELSE -1

\* list.insert: a position past the end appends.
InsertChild(seq, position, item) ==
    LET p == IF position > Len(seq) THEN Len(seq) ELSE position
    IN  SubSeq(seq, 1, p) \o <<item>> \o SubSeq(seq, p + 1, Len(seq))

\* list.pop(position) for 0 <= position < len.
RemovePosition(seq, position) ==
    SubSeq(seq, 1, position) \o SubSeq(seq, position + 2, Len(seq))

\* AbstractDataTreeItem.child
Child(m, parentItem, position) ==
    IF position >= 0 /\ position < Len(m.children[parentItem])
    THEN m.children[parentItem][position + 1]
    ELSE -1

\* A row() that ignores the child's position: every child claims row 0.
RowAlwaysFirst(m, item) == 0

\* AbstractDataTreeItem.row; -1 when childPosition raises ValueError.
Row(m, item) ==
    IF m.par[item] # NoParent
    THEN ChildPosition(m.children[m.par[item]], item)
    ELSE 0

\* AbstractDataTreeItem.columnCount
ItemColumnCount(m, item) == ItemSize(m.store[item])

\* ---------------------------------------------------------------- handles
\* QModelIndex: (row, column, internalPointer).
NullIndex == [row |-> -1, col |-> -1, ptr |-> -1]

CreateIndex(row, column, ptr) == [row |-> row, col |-> column, ptr |-> ptr]

IsValid(h) == h.row >= 0 /\ h.col >= 0

\* AbstractDataTreeModel.item
Item(h) == IF IsValid(h) /\ h.ptr # -1 THEN h.ptr ELSE Root

\* AbstractDataTreeModel.itemIndex
ItemIndex(m, item) ==
    IF item = Root THEN NullIndex ELSE CreateIndex(Row(m, item), 0, item)

\* AbstractDataTreeModel.rowCount / columnCount
RowCount(m, h) == Len(m.children[Item(h)])

ColumnCount(m, h) == ItemColumnCount(m, Item(h))

\* QAbstractItemModel.hasIndex as AbstractDataTreeModel.index calls it.
HasIndex(m, row, column, h) ==
    /\ row >= 0
    /\ column >= 0
    /\ row < RowCount(m, h)
    /\ column < ColumnCount(m, h)

\* AbstractDataTreeModel.index
Index(m, row, column, h) ==
    IF ~HasIndex(m, row, column, h)
    THEN NullIndex
    ELSE LET childItem == Child(m, Item(h), row)
         IN  IF childItem # -1 THEN CreateIndex(row, column, childItem) ELSE NullIndex

\* A parent() without the test for the root: the root gets a handle.
MediatorParentRootHandle(m, h) ==
    IF ~IsValid(h)
    THEN [raised |-> "none", handle |-> NullIndex]
    ELSE LET parentItem == m.par[h.ptr]
         IN  IF parentItem = NoParent
             THEN [raised |-> "AttributeError", handle |-> NullIndex]
             ELSE [raised |-> "none",
                   handle |-> CreateIndex(Row(m, parentItem), 0, parentItem)]

\* AbstractDataTreeModel.parent: the handle it returns and what it raises.
\* An item detached from the tree has the parent None, which is not the
\* root and has no row().
MediatorParent(m, h) ==
    IF ~IsValid(h)
    THEN [raised |-> "none", handle |-> NullIndex]
    ELSE LET childItem == h.ptr
             parentItem == m.par[childItem]
         IN  IF parentItem = Root
             THEN [raised |-> "none", handle |-> NullIndex]
             ELSE IF parentItem = NoParent
             THEN [raised |-> "AttributeError", handle |-> NullIndex]
             ELSE IF Row(m, parentItem) = -1
             THEN [raised |-> "ValueError", handle |-> NullIndex]
             ELSE [raised |-> "none",
                   handle |-> CreateIndex(Row(m, parentItem), 0, parentItem)]

\* ------------------------------------------------- mediator internals
\* A handler works on a record m of the mediator's state:
\*   children, par, conn, store, events, raised.
\* An entry of events: a bracket notification of the mediator (beginInsert,
\* endInsert, beginRemove, endRemove) or a change of a child sequence
\* (attach, detach) with the row it happened at.
Event(ev, h, parent, first, lastRow, item) ==
    [ev |-> ev, h |-> h, parent |-> parent, first |-> first, last |-> lastRow,
     item |-> item]

Emit(m, e) == [m EXCEPT !.events = Append(@, e)]

Raise(m, exc) == [m EXCEPT !.raised = exc]

\* QAbstractItemModel.beginInsertRows / endInsertRows / beginRemoveRows /
\* endRemoveRows as the commands call them.
BeginInsertRows(m, h, first, lastRow) ==
    Emit(m, Event("beginInsert", h, Item(h), first, lastRow, -1))

EndInsertRows(m) == Emit(m, Event("endInsert", NullIndex, -1, -1, -1, -1))

BeginRemoveRows(m, h, first, lastRow) ==
    Emit(m, Event("beginRemove", h, Item(h), first, lastRow, -1))

EndRemoveRows(m) == Emit(m, Event("endRemove", NullIndex, -1, -1, -1, -1))

\* AbstractDataTreeModel._itemConnect
ItemConnect(m, item) == [m EXCEPT !.conn[item] = @ + 1]

\* AbstractDataTreeModel._itemDisconnect: Signal.disconnect() drops every
\* connection of the signal and raises RuntimeError when there is none.
ItemDisconnect(m, item) ==
    IF m.conn[item] = 0
    THEN Raise(m, "RuntimeError")
    ELSE [m EXCEPT !.conn[item] = 0]

\* AbstractDataTreeModel._itemInsertPosition
ItemInsertPosition(m, parent, item, position) ==
    LET at == IF position > Len(m.children[parent])
              THEN Len(m.children[parent]) ELSE position
        m1 == [m EXCEPT !.children[parent] = InsertChild(@, position, item)]
        m2 == Emit(m1, Event("attach", NullIndex, parent, at, at, item))
        m3 == [m2 EXCEPT !.par[item] = parent]
    IN  ItemConnect(m3, item)

\* AbstractDataTreeModel._itemRemovePosition: IndexError is swallowed.
ItemRemovePosition(m, parent, position) ==
    IF position >= Len(m.children[parent])
    THEN m
    ELSE LET item == m.children[parent][position + 1]
             m1 == [m EXCEPT !.children[parent] = RemovePosition(@, position)]
             m2 == Emit(m1, Event("detach", NullIndex, parent, position, position, item))
             m3 == [m2 EXCEPT !.par[item] = NoParent]
         IN  ItemDisconnect(m3, item)

\* --------------------------------------------------------------- commands
Command(kind, position, items, parentItem, item, column, role, newvalue, oldvalue, members) ==
    [kind |-> kind, position |-> position, items |-> items,
     parentItem |-> parentItem, item |-> item, column |-> column,
     role |-> role, newvalue |-> newvalue, oldvalue |-> oldvalue,
     members |-> members]

\* AbstractSetDataCommand.__init__ (with a text: without one it raises)
AbstractSetDataCommand(item, column, newvalue, oldvalue, role) ==
    Command("set", -1, <<>>, -1, item, column, role, newvalue, oldvalue, <<>>)

\* InsertItemCommand.__init__
InsertItemCommand(m, position, items, parentIndex) ==
    Command("insert", position, items, Item(parentIndex), -1, -1, None, None,
            None, <<>>)

\* RemoveItemCommand.__init__: the entities behind the handles of the rows.
RemoveItemCommand(m, position, itemCount, parentIndex) ==
    LET indexes == [k \in 1..itemCount |-> Index(m, position + k - 1, 0, parentIndex)]
    IN  Command("remove", position, [k \in 1..itemCount |-> Item(indexes[k])],
                Item(parentIndex), -1, -1, None, None, None, <<>>)

\* QUndoStack.beginMacro: a plain QUndoCommand that holds its members.
MacroCommand(members) ==
    Command("macro", -1, <<>>, -1, -1, -1, None, None, None, members)

\* An enumeration that drops the item's offset: every item of the run is
\* inserted at the first row.
InsertRedoFnNoOffset(nextIndex, i) == nextIndex

\* The lambda fn of InsertItemCommand.redo: the row of the index-th item.
InsertRedoFn(nextIndex, i) == nextIndex + i

\* The lambda fn of RemoveItemCommand.undo: the row of the index-th item.
RemoveUndoFn(nextIndex, i) == nextIndex + i

\* The lambda fn of InsertItemCommand.undo, called with each i of
\* range(nextIndex, endIndex): the row it removes.
InsertUndoFn(nextIndex, i) == nextIndex + i

\* The lambda fn of RemoveItemCommand.redo, called with each i of
\* range(nextIndex, endIndex): the row it removes.
RemoveRedoFn(nextIndex, i) == nextIndex + i

\* for i, item in enumerate(self._items): fn(item, i)   (InsertItemCommand.redo)
RECURSIVE InsertRedoLoop(_, _, _)
InsertRedoLoop(m, cmd, k) ==
    IF k > Len(cmd.items) \/ m.raised # "none"
    THEN m
    ELSE InsertRedoLoop(
             ItemInsertPosition(m, cmd.parentItem, cmd.items[k],
                                InsertRedoFn(cmd.position, k - 1)),
             cmd, k + 1)

\* for i, item in enumerate(self._items): fn(item, i)   (RemoveItemCommand.undo)
RECURSIVE RemoveUndoLoop(_, _, _)
RemoveUndoLoop(m, cmd, k) ==
    IF k > Len(cmd.items) \/ m.raised # "none"
    THEN m
    ELSE RemoveUndoLoop(
             ItemInsertPosition(m, cmd.parentItem, cmd.items[k],
                                RemoveUndoFn(cmd.position, k - 1)),
             cmd, k + 1)

\* for i in sorted(range(nextIndex, endIndex), reverse=True): fn(i)
\* (InsertItemCommand.undo)
RECURSIVE InsertUndoLoop(_, _, _)
InsertUndoLoop(m, cmd, i) ==
    IF i < cmd.position \/ m.raised # "none"
    THEN m
    ELSE InsertUndoLoop(
             ItemRemovePosition(m, cmd.parentItem, InsertUndoFn(cmd.position, i)),
             cmd, i - 1)

\* for i in sorted(range(nextIndex, endIndex), reverse=True): fn(i)
\* (RemoveItemCommand.redo)
RECURSIVE RemoveRedoLoop(_, _, _)
RemoveRedoLoop(m, cmd, i) ==
    IF i < cmd.position \/ m.raised # "none"
    THEN m
    ELSE RemoveRedoLoop(
             ItemRemovePosition(m, cmd.parentItem, RemoveRedoFn(cmd.position, i)),
             cmd, i - 1)

\* A call that raised leaves the rest of the handler undone.
Then(m, next) == IF m.raised # "none" THEN m ELSE next

\* InsertItemCommand.redo
InsertItemRedo(m, cmd) ==
    IF Row(m, cmd.parentItem) = -1
    THEN Raise(m, "ValueError")
    ELSE LET parent == ItemIndex(m, cmd.parentItem)
             endIndex == cmd.position + Len(cmd.items)
             nextIndex == cmd.position
             lastIndex == endIndex - 1
             m1 == BeginInsertRows(m, parent, nextIndex, lastIndex)
             m2 == InsertRedoLoop(m1, cmd, 1)
         IN  Then(m2, EndInsertRows(m2))

\* InsertItemCommand.undo
InsertItemUndo(m, cmd) ==
    IF Row(m, cmd.parentItem) = -1
    THEN Raise(m, "ValueError")
    ELSE LET parent == ItemIndex(m, cmd.parentItem)
             endIndex == cmd.position + Len(cmd.items)
             nextIndex == cmd.position
             lastIndex == endIndex - 1
             m1 == BeginRemoveRows(m, parent, nextIndex, lastIndex)
             m2 == InsertUndoLoop(m1, cmd, endIndex - 1)
         IN  Then(m2, EndRemoveRows(m2))

\* RemoveItemCommand.redo
RemoveItemRedo(m, cmd) ==
    IF Row(m, cmd.parentItem) = -1
    THEN Raise(m, "ValueError")
    ELSE LET parent == ItemIndex(m, cmd.parentItem)
             endIndex == cmd.position + Len(cmd.items)
             nextIndex == cmd.position
             lastIndex == endIndex - 1
             m1 == BeginRemoveRows(m, parent, nextIndex, lastIndex)
             m2 == RemoveRedoLoop(m1, cmd, endIndex - 1)
         IN  Then(m2, EndRemoveRows(m2))

\* RemoveItemCommand.undo
RemoveItemUndo(m, cmd) ==
    IF Row(m, cmd.parentItem) = -1
    THEN Raise(m, "ValueError")
    ELSE LET parent == ItemIndex(m, cmd.parentItem)
             endIndex == cmd.position + Len(cmd.items)
             nextIndex == cmd.position
             lastIndex == endIndex - 1
             m1 == BeginInsertRows(m, parent, nextIndex, lastIndex)
             m2 == RemoveUndoLoop(m1, cmd, 1)
         IN  Then(m2, EndInsertRows(m2))

\* AbstractSetDataCommand.redo
SetDataRedo(m, cmd) ==
    [m EXCEPT !.store[cmd.item] =
        ItemSetData(@, cmd.column, cmd.newvalue, cmd.role)]

\* AbstractSetDataCommand.undo
SetDataUndo(m, cmd) ==
    [m EXCEPT !.store[cmd.item] =
        ItemSetData(@, cmd.column, cmd.oldvalue, cmd.role)]

\* A command's redo / undo called by the QUndoStack or by a macro command:
\* an exception of the Python handler ends the handler and is reported, and
\* the caller goes on.  raised keeps the first exception of the operation.
Call(m, r) ==
    [r EXCEPT !.raised = IF m.raised # "none" THEN m.raised ELSE r.raised]

Fresh(m) == [m EXCEPT !.raised = "none"]

\* QUndoCommand.redo / undo: a macro redoes its members in order and undoes
\* them in reverse order.
RECURSIVE CommandRedo(_, _)
RECURSIVE CommandUndo(_, _)
RECURSIVE MembersRedo(_, _, _)
RECURSIVE MembersUndo(_, _, _)
CommandRedo(m, cmd) ==
    CASE cmd.kind = "insert" -> Call(m, InsertItemRedo(Fresh(m), cmd))
      [] cmd.kind = "remove" -> Call(m, RemoveItemRedo(Fresh(m), cmd))
      [] cmd.kind = "set" -> Call(m, SetDataRedo(Fresh(m), cmd))
      [] OTHER -> MembersRedo(m, cmd.members, 1)

CommandUndo(m, cmd) ==
    CASE cmd.kind = "insert" -> Call(m, InsertItemUndo(Fresh(m), cmd))
      [] cmd.kind = "remove" -> Call(m, RemoveItemUndo(Fresh(m), cmd))
      [] cmd.kind = "set" -> Call(m, SetDataUndo(Fresh(m), cmd))
      [] OTHER -> MembersUndo(m, cmd.members, Len(cmd.members))

MembersRedo(m, members, k) ==
    IF k > Len(members) THEN m
    ELSE MembersRedo(CommandRedo(m, members[k]), members, k + 1)

MembersUndo(m, members, k) ==
    IF k < 1 THEN m
    ELSE MembersUndo(CommandUndo(m, members[k]), members, k - 1)

\* A command's undo / redo together with its _result list.  counts holds the
\* lengths of the _result lists of the commands of one log entry, the members
\* of a macro in order.  undo pops the list after its work (IndexError on an
\* empty list) and redo appends to it after its work; a handler that raised
\* before leaves the list as it was.
RECURSIVE UndoWalk(_, _, _, _)
RECURSIVE MembersUndoWalk(_, _, _, _, _)
UndoWalk(m, cmd, counts, at) ==
    IF cmd.kind = "macro"
    THEN MembersUndoWalk(m, cmd.members, Len(cmd.members), counts, at)
    ELSE LET r == CommandUndo(Fresh(m), cmd)
         IN  IF r.raised # "none"
             THEN [m |-> Call(m, r), counts |-> counts, at |-> at - 1]
             ELSE IF counts[at] = 0
             THEN [m |-> Call(m, Raise(r, "IndexError")), counts |-> counts,
                   at |-> at - 1]
             ELSE [m |-> Call(m, r), counts |-> [counts EXCEPT ![at] = @ - 1],
                   at |-> at - 1]

MembersUndoWalk(m, members, k, counts, at) ==
    IF k < 1
    THEN [m |-> m, counts |-> counts, at |-> at]
    ELSE LET w == UndoWalk(m, members[k], counts, at)
         IN  MembersUndoWalk(w.m, members, k - 1, w.counts, w.at)

RECURSIVE RedoWalk(_, _, _, _)
RECURSIVE MembersRedoWalk(_, _, _, _, _)
RedoWalk(m, cmd, counts, at) ==
    IF cmd.kind = "macro"
    THEN MembersRedoWalk(m, cmd.members, 1, counts, at)
    ELSE LET r == CommandRedo(Fresh(m), cmd)
         IN  IF r.raised # "none"
             THEN [m |-> Call(m, r), counts |-> counts, at |-> at + 1]
             ELSE [m |-> Call(m, r), counts |-> [counts EXCEPT ![at] = @ + 1],
                   at |-> at + 1]

MembersRedoWalk(m, members, k, counts, at) ==
    IF k > Len(members)
    THEN [m |-> m, counts |-> counts, at |-> at]
    ELSE LET w == RedoWalk(m, members[k], counts, at)
         IN  MembersRedoWalk(w.m, members, k + 1, w.counts, w.at)

\* ------------------------------------------------------------ QUndoStack
\* The mediator's state as a handler finds it.
Cur ==
    [children |-> children, par |-> par, conn |-> conn, store |-> store,
     events |-> <<>>, raised |-> "none"]

\* The model follows a handler only while no child sequence outgrows MaxRows.
Install(m) ==
    /\ \A e \in Entities : Len(m.children[e]) <= MaxRows
    /\ children' = m.children
    /\ par' = m.par
    /\ conn' = m.conn
    /\ store' = m.store
    /\ events' = m.events
    /\ raised' = m.raised

\* What the claims compare: child sequences, parents and cells.
Snap(m) == [children |-> m.children, par |-> m.par, store |-> m.store]

NoCommand == Command("none", -1, <<>>, -1, -1, -1, None, None, None, <<>>)

\* The child list of the innermost open macro gets the command.
RECURSIVE AddMember(_, _, _)
AddMember(macro, depth, cmd) ==
    IF depth <= 1
    THEN [macro EXCEPT !.members = Append(@, cmd)]
    ELSE LET n == Len(macro.members)
         IN  [macro EXCEPT !.members[n] = AddMember(macro.members[n], depth - 1, cmd)]

\* QUndoStack.canUndo / canRedo
CanUndo == macroDepth = 0 /\ index > 0

CanRedo == macroDepth = 0 /\ index < Len(stack)

\* QUndoStack.push after cmd.redo(): the command joins the open macro, or
\* replaces the undone entries as the new top entry.
StackPush(cmd) ==
    IF macroDepth > 0
    THEN /\ stack' = [stack EXCEPT ![Len(stack)] = AddMember(@, macroDepth, cmd)]
         /\ index' = index
    ELSE /\ stack' = Append(SubSeq(stack, 1, index), cmd)
         /\ index' = index + 1

\* The _result list of a command pushed after its redo: one entry when the
\* redo ran to its end, none when it raised before it appended one.
ResultPush(n) ==
    IF macroDepth > 0
    THEN cresult' = [cresult EXCEPT ![Len(cresult)] = Append(@, n)]
    ELSE cresult' = Append(SubSeq(cresult, 1, index), <<n>>)

\* command.result() of a command just executed: the newest entry of the
\* command's _result list, None when redo raised before it appended one.
CommandResult(m, cmd) ==
    IF m.raised # "none"
    THEN ResultNone
    ELSE CASE cmd.kind = "insert" ->
                  ResultHandles([k \in 1..Len(cmd.items) |-> ItemIndex(m, cmd.items[k])])
           [] cmd.kind \in {"remove", "set"} -> ResultTrue
           [] OTHER -> ResultNone

\* The command as the log holds it: the item a removeItem call was given is
\* known to the call only, a RemoveItemCommand holds the rows' items.
Pushed(cmd) == IF cmd.kind = "remove" THEN [cmd EXCEPT !.item = -1] ELSE cmd

\* An executeCommand that runs the redo a second time.
ExecuteCommandTwice(m0, cmd, op) ==
    LET m == CommandRedo(CommandRedo(m0, cmd), cmd)
    IN  /\ Install(m)
        /\ result' = CommandResult(m, cmd)
        /\ last' = [op |-> op, cmd |-> cmd, pre |-> Snap(m0)]
        /\ IF undostack
           THEN /\ StackPush(Pushed(cmd))
                /\ ResultPush(IF m.raised = "none" THEN 2 ELSE 0)
                /\ ncmds' = ncmds + 1
                /\ mark' = IF macroDepth > 0
                           THEN [mark EXCEPT !.post = Snap(m)]
                           ELSE [phase |-> "applied", pre |-> Snap(m0),
                                 post |-> Snap(m)]
           ELSE /\ UNCHANGED <<stack, cresult, index, ncmds>>
                /\ mark' = [phase |-> "direct", pre |-> Snap(m0), post |-> Snap(m)]
        /\ UNCHANGED <<itemData, undostack, macroDepth, itemClass, staticdata, component, nwrites>>

\* AbstractDataTreeModel.executeCommand on the state m0 (the state of the
\* call, with the entities the caller constructed for it).
ExecuteCommand(m0, cmd, op) ==
    LET m == CommandRedo(m0, cmd)
    IN  /\ Install(m)
        /\ result' = CommandResult(m, cmd)
        /\ last' = [op |-> op, cmd |-> cmd, pre |-> Snap(m0)]
        /\ IF undostack
           THEN /\ StackPush(Pushed(cmd))
                /\ ResultPush(IF m.raised = "none" THEN 1 ELSE 0)
                /\ ncmds' = ncmds + 1
                /\ mark' = IF macroDepth > 0
                           THEN [mark EXCEPT !.post = Snap(m)]
                           ELSE [phase |-> "applied", pre |-> Snap(m0),
                                 post |-> Snap(m)]
           ELSE /\ UNCHANGED <<stack, cresult, index, ncmds>>
                /\ mark' = [phase |-> "direct", pre |-> Snap(m0), post |-> Snap(m)]
        /\ UNCHANGED <<itemData, undostack, macroDepth, itemClass, staticdata, component, nwrites>>

\* A call that ends before any command is built.
NoCommandCall(m, op) ==
    /\ Install(m)
    /\ result' = ResultNone
    /\ last' = [op |-> op, cmd |-> NoCommand, pre |-> Snap(Cur)]
    /\ UNCHANGED <<created, itemData, undostack, stack, cresult, index, macroDepth, ncmds, mark,
                   itemClass, staticdata, component, nwrites>>

\* ---------------------------------------------------------------- inputs
\* The column values the root and the items of a mediator are constructed
\* with: none, or one column.
ItemData0 == {<<>>, <<"x">>}

\* The handles a caller holds: the null handle and those of attached items.
ParentIndexes ==
    {NullIndex} \cup {ItemIndex(Cur, e) : e \in {i \in 1..created : par[i] # NoParent}}

\* Columns and roles a caller edits through a command, and the value it
\* enters.
EditCols == {0}

EditRoles == {DisplayRole, EditRole}

EditValues == {"a"}

\* The mediator is populated without a log first (as GLSceneModel.reload and
\* PropertyModel.insertProperties do), then edited through the log.
MayExecute == undostack /\ ncmds < MaxCmds

MayPopulate == ~undostack /\ created < MaxInit

\* Mediator.setData is called while the mediator is populated and on a log
\* that holds at most MaxSetDataLog commands.
MaySetData == MayPopulate \/ (undostack /\ ncmds <= MaxSetDataLog)

\* --------------------------------------------------------------- actions
Init ==
    /\ children = [e \in Entities |-> <<>>]
    /\ par = [e \in Entities |-> NoParent]
    /\ conn = [e \in Entities |-> 0]
    /\ created = 0
    /\ itemData \in ItemData0
    /\ store = [e \in Entities |->
                   IF e = Root THEN BuildData(itemData) ELSE EmptyData]
    /\ undostack = FALSE
    /\ stack = <<>>
    /\ cresult = <<>>
    /\ index = 0
    /\ macroDepth = 0
    /\ ncmds = 0
    /\ events = <<>>
    /\ raised = "none"
    /\ mark = [phase |-> "none",
               pre |-> [children |-> children, par |-> par, store |-> store],
               post |-> [children |-> children, par |-> par, store |-> store]]
    /\ last = [op |-> "init", cmd |-> NoCommand,
               pre |-> [children |-> children, par |-> par, store |-> store]]
    /\ itemClass = [e \in Entities |-> "item"]
    /\ staticdata = [e \in Entities |-> e]
    /\ component = [e \in Entities |-> NoComponent]
    /\ nwrites = 0
    /\ result = ResultNone

\* AbstractDataTreeModel.setUndoModel(stack), as MainWindow._sceneNew does.
SetUndoModel ==
    /\ ~undostack
    /\ undostack' = TRUE
    /\ last' = [op |-> "setUndoModel", cmd |-> NoCommand, pre |-> Snap(Cur)]
    /\ result' = ResultNone
    /\ Install(Cur)
    /\ UNCHANGED <<created, itemData, stack, cresult, index, macroDepth, ncmds, mark,
                   itemClass, staticdata, component, nwrites>>

\* AbstractDataTreeModel.appendItem of an item the caller constructs for it.
AppendNewItem ==
    /\ MayExecute \/ MayPopulate
    /\ created < NItems
    /\ \E parentIndex \in ParentIndexes :
           LET item == created + 1
               m0 == [Cur EXCEPT !.store[item] = BuildData(itemData)]
               parentItem == Item(parentIndex)
           IN  /\ Len(children[parentItem]) < MaxRows
               /\ created' = item
               /\ ExecuteCommand(m0,
                      InsertItemCommand(m0, Len(children[parentItem]), <<item>>,
                                        parentIndex),
                      "appendItem")

\* appendItem(item) on a mediator without a log, called by a slot of the
\* mediator's rowsAboutToBeInserted signal: executeCommand runs the redo.
ObserverAppendItem(m, item, parentIndex) ==
    CommandRedo(m, InsertItemCommand(m, Len(m.children[Item(parentIndex)]), <<item>>,
                                     parentIndex))

\* InsertItemCommand.redo with such a slot connected: beginInsertRows emits
\* the signal, the slot returns, and the redo goes on with its own rows.
InsertItemRedoObserved(m, cmd, inner) ==
    IF Row(m, cmd.parentItem) = -1
    THEN Raise(m, "ValueError")
    ELSE LET parent == ItemIndex(m, cmd.parentItem)
             endIndex == cmd.position + Len(cmd.items)
             nextIndex == cmd.position
             lastIndex == endIndex - 1
             m1 == BeginInsertRows(m, parent, nextIndex, lastIndex)
             m2 == ObserverAppendItem(m1, inner, NullIndex)
             m3 == InsertRedoLoop(m2, cmd, 1)
         IN  Then(m3, EndInsertRows(m3))

\* AbstractDataTreeModel.appendItem while the mediator is populated, with an
\* observer that appends an item of its own when the rows are announced.
ObservedAppendItem ==
    /\ MayPopulate
    /\ created + 2 <= NItems
    /\ LET item == created + 1
           inner == created + 2
           m0 == [Cur EXCEPT !.store[item] = BuildData(itemData),
                             !.store[inner] = BuildData(itemData)]
           cmd == InsertItemCommand(m0, Len(children[Root]), <<item>>, NullIndex)
           m == Call(m0, InsertItemRedoObserved(Fresh(m0), cmd, inner))
       IN  /\ Len(children[Root]) + 2 <= MaxRows
           /\ created' = inner
           /\ Install(m)
           /\ result' = CommandResult(m, cmd)
           /\ last' = [op |-> "appendItem observed", cmd |-> cmd, pre |-> Snap(m0)]
           /\ mark' = [phase |-> "direct", pre |-> Snap(m0), post |-> Snap(m)]
    /\ UNCHANGED <<itemData, undostack, stack, cresult, index, macroDepth, ncmds, itemClass, staticdata,
                   component, nwrites>>

\* AbstractDataTreeModel.appendItem of the newest item once more, as
\* MainWindow._nodeInsert does for the second selected parent.
AppendItem ==
    /\ MayExecute
    /\ \E parentIndex \in ParentIndexes, item \in {created} \ {0} :
           LET parentItem == Item(parentIndex)
           IN  /\ parentItem # item
               /\ Len(children[parentItem]) < MaxRows
               /\ UNCHANGED created
               /\ ExecuteCommand(Cur,
                      InsertItemCommand(Cur, Len(children[parentItem]), <<item>>,
                                        parentIndex),
                      "appendItem")

\* executeCommand(InsertItemCommand(model, position, items, parentIndex)) with
\* a run of newly constructed items.
ExecuteInsert ==
    /\ MayExecute
    /\ \E parentIndex \in ParentIndexes, n \in 1..MaxRun :
           LET parentItem == Item(parentIndex)
               items == [k \in 1..n |-> created + k]
               m0 == [Cur EXCEPT !.store =
                         [e \in Entities |->
                             IF e \in created + 1..created + n
                             THEN BuildData(itemData) ELSE @[e]]]
           IN  /\ created + n <= NItems
               /\ Len(children[parentItem]) + n <= MaxRows
               /\ \E position \in 0..Len(children[parentItem]) :
                      /\ created' = created + n
                      /\ ExecuteCommand(m0,
                             InsertItemCommand(m0, position, items, parentIndex),
                             "insert")

\* The numbers of rows insertRows is asked for.
InsertRowsInput == {1}

\* AbstractDataTreeModel.insertRows of one row under the root: createItem()
\* has no data to construct an AbstractDataTreeItem with and raises
\* TypeError, unless range(position, rows) is empty and the command inserts
\* nothing.
InsertRows ==
    /\ MayExecute
    /\ \E parentIndex \in {NullIndex}, rows \in InsertRowsInput :
       \E position \in 0..Len(children[Item(parentIndex)]) :
           IF position < rows
           THEN NoCommandCall(Raise(Cur, "TypeError"), "insertRows")
           ELSE /\ UNCHANGED created
                /\ ExecuteCommand(Cur,
                       InsertItemCommand(Cur, position, <<>>, parentIndex),
                       "insertRows")

\* AbstractDataTreeModel.removeRows
RemoveRows ==
    /\ MayExecute
    /\ \E parentIndex \in ParentIndexes, rows \in 1..MaxRun :
       \E position \in 0..(Len(children[Item(parentIndex)]) - rows) :
           /\ UNCHANGED created
           /\ ExecuteCommand(Cur,
                  RemoveItemCommand(Cur, position, rows, parentIndex),
                  "removeRows")

\* AbstractDataTreeModel.removeItem (the call's record keeps the item it was
\* given in the command's item field), with the default parent (the root) as
\* MainWindow._nodeRemove calls it or with the handle of the item's parent
\* as PropertyModel.removeProperties does.
RemoveItem ==
    /\ MayExecute
    /\ \E item \in {i \in 1..created : par[i] # NoParent} :
       \E parentIndex \in {NullIndex, ItemIndex(Cur, par[item])} :
           IF Row(Cur, item) = -1
           THEN NoCommandCall(Raise(Cur, "ValueError"), "removeItem")
           ELSE /\ UNCHANGED created
                /\ ExecuteCommand(Cur,
                       [RemoveItemCommand(Cur, Row(Cur, item), 1, parentIndex)
                            EXCEPT !.item = item],
                       "removeItem")

\* AbstractDataTreeModel.clear; QAbstractItemModel.hasChildren() is
\* rowCount() > 0 and columnCount() > 0 of the root.
Clear ==
    /\ MayExecute
    /\ IF RowCount(Cur, NullIndex) > 0 /\ ColumnCount(Cur, NullIndex) > 0
       THEN /\ UNCHANGED created
            /\ ExecuteCommand(Cur,
                   RemoveItemCommand(Cur, 0, RowCount(Cur, NullIndex), NullIndex),
                   "clear")
       ELSE NoCommandCall(Cur, "clear")

\* executeCommand(AbstractSetDataCommand(item, column, value, oldvalue, role))
\* with the cell's current value as oldvalue and another value as value.
ExecuteSetData ==
    /\ MayExecute
    /\ \E item \in 1..created, column \in EditCols, role \in EditRoles,
          value \in EditValues :
           LET oldvalue == ItemData(store[item], column, role)
           IN  /\ oldvalue # value
               /\ UNCHANGED created
               /\ ExecuteCommand(Cur,
                      AbstractSetDataCommand(item, column, value, oldvalue, role),
                      "setData")

\* AbstractDataTreeModel.data
MediatorData(m, h, role) ==
    IF ~IsValid(h) THEN None ELSE ItemData(m.store[Item(h)], h.col, role)

\* What setData(h, value, role) was called with, and the old value that
\* createSetDataCommand reads.
SetDataCall(h, value, oldvalue, role) ==
    Command("call", h.row, <<>>, -1, Item(h), h.col, role, value,
            oldvalue, <<>>)

\* The values a caller passes to the mediator's setData: those of Values and
\* the one the items are built with.
SetDataValues == Values \cup {"x"}

\* executeCommand(None): QUndoStack.push of a null command is rejected by the
\* binding or dereferenced by the stack; without a log None has no redo().
ExecuteNoneOutcomes == IF undostack THEN {"TypeError", "crash"} ELSE {"AttributeError"}

\* AbstractDataTreeModel.setData(h, value, role): item() gives the root for
\* the null handle, so that `if not item` never returns False;
\* createSetDataCommand builds an
\* AbstractSetDataCommand without a text, whose constructor raises
\* AttributeError, or passes None on when the value is the old one.
MediatorSetData ==
    /\ MaySetData
    /\ \E h \in ParentIndexes, value \in SetDataValues, role \in EditRoles :
           LET oldvalue == MediatorData(Cur, h, role)
           IN  \E exc \in (IF oldvalue # value THEN {"AttributeError"}
                           ELSE ExecuteNoneOutcomes) :
                   /\ Install(Raise(Cur, exc))
                   /\ last' = [op |-> "Mediator.setData",
                               cmd |-> SetDataCall(h, value, oldvalue, role),
                               pre |-> Snap(Cur)]
    /\ result' = ResultNone
    /\ UNCHANGED <<created, itemData, undostack, stack, cresult, index, macroDepth, ncmds, mark,
                   itemClass, staticdata, component, nwrites>>

\* UndoMacro.__enter__: QUndoStack.beginMacro
BeginMacro ==
    /\ undostack
    /\ macroDepth < MaxMacroDepth
    /\ index < MaxCmds
    /\ ncmds < MaxCmds
    /\ IF macroDepth = 0
       THEN /\ stack' = Append(SubSeq(stack, 1, index), MacroCommand(<<>>))
            /\ cresult' = Append(SubSeq(cresult, 1, index), <<>>)
            /\ mark' = [phase |-> "open", pre |-> Snap(Cur), post |-> Snap(Cur)]
       ELSE /\ stack' = [stack EXCEPT ![Len(stack)] =
                            AddMember(@, macroDepth, MacroCommand(<<>>))]
            /\ cresult' = cresult
            /\ mark' = mark
    /\ macroDepth' = macroDepth + 1
    /\ last' = [op |-> "beginMacro", cmd |-> NoCommand, pre |-> Snap(Cur)]
    /\ result' = ResultNone
    /\ Install(Cur)
    /\ UNCHANGED <<created, itemData, undostack, index, ncmds, itemClass, staticdata, component, nwrites>>

\* The exception the body of a with-scope left with, as __exit__ is given
\* it: none when the body ended or caught what its last call raised.
ExitTypes == {"none", raised}

\* An __exit__ whose endMacro leaves the macro out of the log.
EndMacroUnrecorded ==
    /\ macroDepth > 0
    /\ macroDepth' = macroDepth - 1
    /\ index' = index
    /\ mark' = IF macroDepth = 1 THEN [mark EXCEPT !.phase = "applied"] ELSE mark
    /\ last' = [op |-> "endMacro", cmd |-> stack[Len(stack)], pre |-> Snap(Cur)]
    /\ result' = ResultNone
    /\ \E atype \in ExitTypes : Install(Raise(Cur, atype))
    /\ UNCHANGED <<created, itemData, undostack, stack, cresult, ncmds, itemClass, staticdata, component, nwrites>>

\* UndoMacro.__exit__(atype, value, traceback): QUndoStack.endMacro.  It
\* returns None, so the with statement raises atype again.
EndMacro ==
    /\ macroDepth > 0
    /\ macroDepth' = macroDepth - 1
    /\ index' = IF macroDepth = 1 THEN index + 1 ELSE index
    /\ mark' = IF macroDepth = 1 THEN [mark EXCEPT !.phase = "applied"] ELSE mark
    /\ last' = [op |-> "endMacro", cmd |-> stack[Len(stack)], pre |-> Snap(Cur)]
    /\ result' = ResultNone
    /\ \E atype \in ExitTypes : Install(Raise(Cur, atype))
    /\ UNCHANGED <<created, itemData, undostack, stack, cresult, ncmds, itemClass, staticdata, component, nwrites>>

\* An undo or redo action of the window (whose log the mediator has had
\* since MainWindow._sceneNew, and whose handlers close the macros they open)
\* that finds nothing to undo or redo, and one that forgets the undone
\* entries instead.
NoActionForgetful(op) ==
    /\ undostack
    /\ macroDepth = 0
    /\ Install(Cur)
    /\ last' = [op |-> op, cmd |-> NoCommand, pre |-> Snap(Cur)]
    /\ result' = ResultNone
    /\ stack' = SubSeq(stack, 1, index)
    /\ cresult' = SubSeq(cresult, 1, index)
    /\ UNCHANGED <<created, itemData, undostack, index, macroDepth, ncmds,
                   mark, itemClass, staticdata, component, nwrites>>

NoAction(op) ==
    /\ undostack
    /\ macroDepth = 0
    /\ Install(Cur)
    /\ last' = [op |-> op, cmd |-> NoCommand, pre |-> Snap(Cur)]
    /\ result' = ResultNone
    /\ UNCHANGED <<created, itemData, undostack, stack, cresult, index, macroDepth, ncmds,
                   mark, itemClass, staticdata, component, nwrites>>

\* MainWindow._undoAction: QUndoStack.undo when canUndo()
Undo ==
    \/ ~CanUndo /\ NoAction("undo none")
    \/ /\ CanUndo
       /\ LET w == UndoWalk(Cur, stack[index], cresult[index], Len(cresult[index]))
          IN  /\ Install(w.m)
              /\ cresult' = [cresult EXCEPT ![index] = w.counts]
       /\ index' = index - 1
       /\ mark' = [mark EXCEPT !.phase =
                      CASE @ = "applied" -> "undone"
                        [] @ = "reapplied" -> "reundone"
                        [] OTHER -> "stale"]
       /\ last' = [op |-> "undo", cmd |-> stack[index], pre |-> Snap(Cur)]
       /\ result' = ResultNone
       /\ UNCHANGED <<created, itemData, undostack, stack, macroDepth, ncmds,
                      itemClass, staticdata, component, nwrites>>

\* MainWindow._redoAction: QUndoStack.redo when canRedo()
Redo ==
    \/ ~CanRedo /\ NoAction("redo none")
    \/ /\ CanRedo
       /\ LET w == RedoWalk(Cur, stack[index + 1], cresult[index + 1], 1)
          IN  /\ \A i \in 1..Len(w.counts) : w.counts[i] <= MaxResults
              /\ Install(w.m)
              /\ cresult' = [cresult EXCEPT ![index + 1] = w.counts]
       /\ index' = index + 1
       /\ mark' = [mark EXCEPT !.phase =
                      CASE @ \in {"undone", "reundone"} -> "reapplied"
                        [] OTHER -> "stale"]
       /\ last' = [op |-> "redo", cmd |-> stack[index + 1], pre |-> Snap(Cur)]
       /\ result' = ResultNone
       /\ UNCHANGED <<created, itemData, undostack, stack, macroDepth, ncmds,
                      itemClass, staticdata, component, nwrites>>

Next ==
    \/ SetUndoModel
    \/ AppendNewItem
    \/ AppendItem
    \/ ObservedAppendItem
    \/ ExecuteInsert
    \/ InsertRows
    \/ RemoveRows
    \/ RemoveItem
    \/ Clear
    \/ ExecuteSetData
    \/ MediatorSetData
    \/ BeginMacro
    \/ EndMacro
    \/ Undo
    \/ Redo

Spec == Init /\ [][Next]_vars

\* ------------------------------------------------- the entity on its own
\* One entity outside any mediator: an AbstractDataTreeItem constructed with
\* the column values, or a PropertyItem constructed with a name.
InitCell ==
    /\ children = [e \in Entities |-> <<>>]
    /\ par = [e \in Entities |-> NoParent]
    /\ conn = [e \in Entities |-> 0]
    /\ created = 1
    /\ itemData \in ItemData0
    /\ staticdata = [e \in Entities |-> e]
    /\ itemClass \in {k \in [Entities -> Kinds] : \A e \in Entities \ {1} : k[e] = "item"}
    /\ itemClass[1] = "property" => itemData = <<"x">>
    /\ store = [e \in Entities |->
                   IF e # 1 THEN EmptyData
                   ELSE IF itemClass[1] = "property" THEN PropertyItemData("x")
                   ELSE BuildData(itemData)]
    /\ component = [e \in Entities |-> NoComponent]
    /\ nwrites = 0
    /\ result = ResultNone
    /\ undostack = FALSE
    /\ stack = <<>>
    /\ cresult = <<>>
    /\ index = 0
    /\ macroDepth = 0
    /\ ncmds = 0
    /\ events = <<>>
    /\ raised = "none"
    /\ mark = [phase |-> "none",
               pre |-> [children |-> children, par |-> par, store |-> store],
               post |-> [children |-> children, par |-> par, store |-> store]]
    /\ last = [op |-> "init", cmd |-> NoCommand,
               pre |-> [children |-> children, par |-> par, store |-> store]]

\* e.setData(id, value, role), called on the entity itself.
SetData ==
    /\ nwrites < MaxWrites
    /\ \E e \in 1..created, id \in Cols, value \in Values, role \in Roles :
           LET r == EntitySetData(itemClass[e], store[e], component[e], id, value, role)
           IN  /\ store' = [store EXCEPT ![e] = r.store]
               /\ component' = [component EXCEPT ![e] = r.component]
               /\ events' = EntitySetDataHooks(itemClass[e], e, id, value, role)
               /\ last' = [op |-> "Entity.setData",
                           cmd |-> AbstractSetDataCommand(e, id, value, None, role),
                           pre |-> Snap(Cur)]
    /\ nwrites' = nwrites + 1
    /\ result' = ResultTrue
    /\ raised' = "none"
    /\ UNCHANGED <<children, par, conn, created, itemData, undostack, stack, cresult, index,
                   macroDepth, ncmds, mark, itemClass, staticdata>>

\* e.setData(id, value): the role is left to the default.
SetDataDefault ==
    /\ nwrites < MaxWrites
    /\ \E e \in 1..created, id \in Cols, value \in Values :
           LET r == EntitySetData(itemClass[e], store[e], component[e], id, value,
                                  SetDataDefaultRole)
           IN  /\ store' = [store EXCEPT ![e] = r.store]
               /\ component' = [component EXCEPT ![e] = r.component]
               /\ events' = EntitySetDataHooks(itemClass[e], e, id, value,
                                                SetDataDefaultRole)
               /\ last' = [op |-> "Entity.setData default",
                           cmd |-> AbstractSetDataCommand(e, id, value, None,
                                                          SetDataDefaultRole),
                           pre |-> Snap(Cur)]
    /\ nwrites' = nwrites + 1
    /\ result' = ResultTrue
    /\ raised' = "none"
    /\ UNCHANGED <<children, par, conn, created, itemData, undostack, stack, cresult, index,
                   macroDepth, ncmds, mark, itemClass, staticdata>>

\* The arguments of a call on an entity.
Args(item, column, value, role) ==
    Command("call", -1, <<>>, -1, item, column, role, value, None, <<>>)

\* A read of the entity: nothing but the outcome of the call changes.
ReadCall(op, args, outcome) ==
    /\ result' = outcome.result
    /\ raised' = outcome.raised
    /\ last' = [op |-> op, cmd |-> args, pre |-> Snap(Cur)]
    /\ UNCHANGED <<children, par, conn, store, created, itemData, undostack, stack, cresult,
                   index, macroDepth, ncmds, events, mark, itemClass, staticdata, component,
                   nwrites>>

\* e.data(id, role)
Data ==
    \E e \in 1..created, id \in Cols, role \in Roles :
        ReadCall("Entity.data", Args(e, id, None, role),
                 [raised |-> "none",
                  result |-> ResultValue(EntityData(itemClass[e], store[e],
                                                    component[e], id, role))])

\* e[id]
GetItem ==
    \E e \in 1..created, id \in Cols :
        ReadCall("Entity.__getitem__", Args(e, id, None, DataDefaultRole),
                 EntityGetItem(itemClass[e], store[e], component[e], id))

\* e.hasData(id)
HasDataCall ==
    \E e \in 1..created, id \in Cols :
        ReadCall("Entity.hasData", Args(e, id, None, DataDefaultRole),
                 [raised |-> "none",
                  result |-> IF HasData(store[e], id, DataDefaultRole)
                             THEN ResultTrue ELSE ResultFalse])

\* e.flags(id)
Flags ==
    \E e \in 1..created, id \in Cols :
        ReadCall("Entity.flags", Args(e, id, None, FlagRole),
                 [raised |-> "none",
                  result |-> ResultValue(EntityFlags(itemClass[e], store[e],
                                                     component[e], id))])

\* PropertyItem.insertComponent of an object whose property has some value.
InsertComponent ==
    /\ \E e \in 1..created, value \in Values :
           /\ itemClass[e] = "property"
           /\ component[e] = NoComponent
           /\ component' = [component EXCEPT ![e] = value]
    /\ last' = [op |-> "insertComponent", cmd |-> NoCommand, pre |-> Snap(Cur)]
    /\ result' = ResultNone
    /\ UNCHANGED <<children, par, conn, store, created, itemData, undostack, stack, cresult,
                   index, macroDepth, ncmds, events, raised, mark, itemClass, staticdata, nwrites>>

NextCell ==
    \/ SetData
    \/ SetDataDefault
    \/ Data
    \/ GetItem
    \/ HasDataCall
    \/ Flags
    \/ InsertComponent

SpecCell == InitCell /\ [][NextCell]_vars

\* ------------------------------------------------------- the filter proxies
\* The pattern the filters look for, and the column values of the rows they
\* are asked about: no column, a column without the pattern, a column with it.
Pattern == "a"

FilterItemData == ItemData0 \cup {<<Pattern>>}

\* The lambda given to setColumnFilter.
FilterCondition(value) == value = Pattern

\* The filter of a proxy: the columns setColumnFilter gave the lambda to,
\* filterRegExp ("" when none is set), filterKeyColumn and filterRole.
FilterConfig(columnFilter, regexp, keyColumn) ==
    [columnFilter |-> columnFilter, regexp |-> regexp, keyColumn |-> keyColumn,
     role |-> DisplayRole]

ColumnFilters == {<<>>, <<0>>}

RegExps == {"", Pattern}

KeyColumns == {-1, 0}

FilterConfigs ==
    {FilterConfig(cf, re, kc) : cf \in ColumnFilters, re \in RegExps, kc \in KeyColumns}

\* QVariant.toString of a cell value.
ToText(value) == IF value = None THEN "" ELSE value

\* QString.contains / QRegExp.indexIn >= 0 for the one-letter texts of the
\* cells: the empty pattern is in every text, a letter only in itself.
Contains(text, regexp) == regexp = "" \/ text = regexp

\* QSortFilterProxyModel.filterAcceptsRow
BaseFilterAcceptsRow(m, f, sourceRow, sourceParent) ==
    IF f.regexp = ""
    THEN TRUE
    ELSE IF f.keyColumn = -1
    THEN \E column \in 0..(ColumnCount(m, sourceParent) - 1) :
             Contains(ToText(MediatorData(m, Index(m, sourceRow, column, sourceParent),
                                          f.role)),
                      f.regexp)
    ELSE LET h == Index(m, sourceRow, f.keyColumn, sourceParent)
         IN  IF ~IsValid(h)
             THEN TRUE
             ELSE Contains(ToText(MediatorData(m, h, f.role)), f.regexp)

\* ColumnFilterProxyModel.filterAcceptsRow: the lambdas read the cell through
\* createIndex(sourceRow, columnIndex), a handle without an entity.
ColumnFilterAcceptsRow(m, f, sourceRow, sourceParent) ==
    IF \E i \in 1..Len(f.columnFilter) :
           ~FilterCondition(MediatorData(m, CreateIndex(sourceRow, f.columnFilter[i], -1),
                                         f.role))
    THEN FALSE
    ELSE BaseFilterAcceptsRow(m, f, sourceRow, sourceParent)

\* TreeColumnFilterProxyModel.filterAcceptsRow
RECURSIVE TreeFilterAcceptsRow(_, _, _, _)
TreeFilterAcceptsRow(m, f, sourceRow, sourceParent) ==
    IF ColumnFilterAcceptsRow(m, f, sourceRow, sourceParent)
    THEN TRUE
    ELSE LET h == Index(m, sourceRow, 0, sourceParent)
         IN  IF ~IsValid(h)
             THEN TRUE
             ELSE \E i \in 0..(RowCount(m, h) - 1) : TreeFilterAcceptsRow(m, f, i, h)

\* A populated tree mediator under a filter proxy: every entity was created
\* with its own column values and appended to the root or to an entity created
\* before it.
InitFilter ==
    /\ \E shape \in [Items -> Entities] :
           /\ \A e \in Items : shape[e] < e
           /\ par = [e \in Entities |-> IF e = Root THEN NoParent ELSE shape[e]]
           /\ children = [e \in Entities |-> Ascending({c \in Items : shape[c] = e})]
    /\ conn = [e \in Entities |-> IF e = Root THEN 0 ELSE 1]
    /\ created = NItems
    /\ itemData \in ItemData0
    /\ \E data \in [Items -> FilterItemData] :
           store = [e \in Entities |->
                       IF e = Root THEN BuildData(itemData) ELSE BuildData(data[e])]
    /\ itemClass = [e \in Entities |-> "item"]
    /\ staticdata = [e \in Entities |-> e]
    /\ component = [e \in Entities |-> NoComponent]
    /\ nwrites = 0
    /\ result = ResultNone
    /\ undostack = FALSE
    /\ stack = <<>>
    /\ cresult = <<>>
    /\ index = 0
    /\ macroDepth = 0
    /\ ncmds = 0
    /\ events = <<>>
    /\ raised = "none"
    /\ mark = [phase |-> "none",
               pre |-> [children |-> children, par |-> par, store |-> store],
               post |-> [children |-> children, par |-> par, store |-> store]]
    /\ last = [op |-> "init", cmd |-> NoCommand,
               pre |-> [children |-> children, par |-> par, store |-> store]]

\* The arguments of a call on a proxy: the filter it has, the handle or the
\* row and parent it is asked about, and the aspect it is asked for.
FilterArgs(f, row, parentItem, item, column, role, override) ==
    Command("call", row, f.columnFilter, parentItem, item, column, role,
            f.regexp, override, <<f.keyColumn>>)

\* The handles of the source model the view asks a proxy about.
SourceParents(m) == {NullIndex} \cup {ItemIndex(m, e) : e \in Items}

\* TreeColumnFilterProxyModel.filterAcceptsRow(sourceRow, sourceParent), called
\* by the view for a row of the source model.
FilterAcceptsRow ==
    \E f \in FilterConfigs, sourceParent \in SourceParents(Cur) :
        \E sourceRow \in 0..(RowCount(Cur, sourceParent) - 1) :
            ReadCall("filterAcceptsRow",
                     FilterArgs(f, sourceRow, Item(sourceParent),
                                Child(Cur, Item(sourceParent), sourceRow), 0,
                                f.role, None),
                     [raised |-> "none",
                      result |-> IF TreeFilterAcceptsRow(Cur, f, sourceRow, sourceParent)
                                 THEN ResultTrue ELSE ResultFalse])

\* ColumnFilterProxyModel.filterAcceptsRow(sourceRow, sourceParent), called by
\* the view for a row of the source model.
ColumnFilterAcceptsRowCall ==
    \E f \in FilterConfigs, sourceParent \in SourceParents(Cur) :
        \E sourceRow \in 0..(RowCount(Cur, sourceParent) - 1) :
            ReadCall("ColumnFilterProxyModel.filterAcceptsRow",
                     FilterArgs(f, sourceRow, Item(sourceParent),
                                Child(Cur, Item(sourceParent), sourceRow), 0,
                                f.role, None),
                     [raised |-> "none",
                      result |-> IF ColumnFilterAcceptsRow(Cur, f, sourceRow, sourceParent)
                                 THEN ResultTrue ELSE ResultFalse])

\* The override setFilterData stored for the aspect asked for: none, or a value
\* no cell holds.
OverrideValues == {None, "o"}

\* The filter of a ColumnFilterDataProxyModel: it has no column lambda.
DataFilterConfigs == {FilterConfig(<<>>, re, kc) : re \in RegExps, kc \in KeyColumns}

\* ColumnFilterDataProxyModel.filterAcceptsIndex
FilterAcceptsIndex(m, f, h) ==
    IF f.regexp = ""
    THEN TRUE
    ELSE IF f.keyColumn >= 0 /\ h.col # f.keyColumn
    THEN TRUE
    ELSE LET data == MediatorData(m, h, f.role)
         IN  IF data = None \/ data = ""
             THEN FALSE
             ELSE Contains(ToText(data), f.regexp)

\* ColumnFilterDataProxyModel.data
FilterData(m, f, override, h, role) ==
    IF f.regexp # "" /\ override # None /\ FilterAcceptsIndex(m, f, h)
    THEN override
    ELSE MediatorData(m, h, role)

\* The handles of the cells of the source model.
SourceIndexes(m) ==
    {Index(m, row, column, p) : row \in 0..(NItems - 1), column \in Cols,
                                p \in SourceParents(m)} \ {NullIndex}

\* proxy.data(index, role), called by the view for a cell.
FilterDataCall ==
    \E f \in DataFilterConfigs, override \in OverrideValues,
       h \in SourceIndexes(Cur), role \in EditRoles :
        ReadCall("ColumnFilterDataProxyModel.data",
                 FilterArgs(f, h.row, par[Item(h)], Item(h), h.col, role, override),
                 [raised |-> "none",
                  result |-> ResultValue(FilterData(Cur, f, override, h, role))])

NextFilter ==
    \/ FilterAcceptsRow
    \/ ColumnFilterAcceptsRowCall
    \/ FilterDataCall

SpecFilter == InitFilter /\ [][NextFilter]_vars

\* ------------------------------------------------- tree entities on their own
\* AbstractDataTreeItems outside any mediator, each constructed with column
\* values and with or without a parent object.
TreeCreated == 2

MaxTreeOps == 3

MaxFlagOps == 2

TreeEntities == 0..TreeCreated

\* The flags a caller sets, inserts or removes.
FlagInputs == {"ItemIsEditable", "ItemIsEnabled"}

\* What a tree entity emits: childAdded / childRemoved with the child.
TreeHook(ev, parent, item) == [ev |-> ev, parent |-> parent, item |-> item]

\* AbstractDataItem.setFlags: setData(id, value, FlagRole).
EntitySetFlags(m, e, id, value) ==
    [m EXCEPT !.store[e] = ItemSetData(@, id, value, FlagRole),
              !.events = @ \o ItemSetDataHooks(e, id, value, FlagRole)]

\* value | flags for insertFlags, flags & ~value for removeFlags.
ChangedFlags(op, flags, value) ==
    IF op = "insert" THEN FlagsOr(flags, value) ELSE FlagsAndNot(flags, value)

\* The loop of AbstractDataItem.insertFlags / removeFlags over the keys ids
\* of the FlagRole dict.
RECURSIVE ItemChangeFlags(_, _, _, _, _)
ItemChangeFlags(m, e, ids, op, value) ==
    IF ids = <<>>
    THEN m
    ELSE LET id == Head(ids)
             flags == EntityFlags("item", m.store[e], NoComponent, id)
         IN  ItemChangeFlags(EntitySetFlags(m, e, id, ChangedFlags(op, flags, value)),
                             e, Tail(ids), op, value)

\* AbstractData.data(FlagRole): the columns that have a FlagRole key.
FlagKeys(d) == Ascending({c \in Cols : d[FlagRole][c] # Absent})

\* AbstractDataTreeItem.insertFlags / removeFlags: the entity itself, then
\* every child in turn.
RECURSIVE TreeChangeFlags(_, _, _, _)
RECURSIVE ChildrenChangeFlags(_, _, _, _)
TreeChangeFlags(m, e, op, value) ==
    ChildrenChangeFlags(ItemChangeFlags(m, e, FlagKeys(m.store[e]), op, value),
                        m.children[e], op, value)

ChildrenChangeFlags(m, cs, op, value) ==
    IF cs = <<>>
    THEN m
    ELSE ChildrenChangeFlags(TreeChangeFlags(m, Head(cs), op, value), Tail(cs),
                             op, value)

InitTree ==
    /\ children = [e \in Entities |-> <<>>]
    /\ par \in [Entities -> {NoParent} \cup TreeEntities]
    /\ \A e \in Entities : par[e] < e /\ (e \notin TreeEntities => par[e] = NoParent)
    /\ conn = [e \in Entities |-> 0]
    /\ created = TreeCreated
    /\ itemData \in ItemData0
    /\ store = [e \in Entities |->
                   IF e \in TreeEntities THEN BuildData(itemData) ELSE EmptyData]
    /\ itemClass = [e \in Entities |-> "item"]
    /\ staticdata = [e \in Entities |-> e]
    /\ component = [e \in Entities |-> NoComponent]
    /\ nwrites = 0
    /\ result = ResultNone
    /\ undostack = FALSE
    /\ stack = <<>>
    /\ cresult = <<>>
    /\ index = 0
    /\ macroDepth = 0
    /\ ncmds = 0
    /\ events = <<>>
    /\ raised = "none"
    /\ mark = [phase |-> "none",
               pre |-> [children |-> children, par |-> par, store |-> store],
               post |-> [children |-> children, par |-> par, store |-> store]]
    /\ last = [op |-> "init", cmd |-> NoCommand,
               pre |-> [children |-> children, par |-> par, store |-> store]]

\* A call on a tree entity that changes a child sequence: the sequence after
\* it, the hook it emitted and what it returned.
TreeCall(op, p, position, item, seq, ev) ==
    /\ ncmds < MaxTreeOps
    /\ ncmds' = ncmds + 1
    /\ children' = [children EXCEPT ![p] = seq]
    /\ events' = <<TreeHook(ev, p, item)>>
    /\ result' = IF ev = "childRemoved" THEN ResultValue(item) ELSE ResultNone
    /\ raised' = "none"
    /\ last' = [op |-> op,
                cmd |-> Command("call", position, <<item>>, p, item, -1, None,
                                None, None, <<>>),
                pre |-> Snap(Cur)]
    /\ UNCHANGED <<par, conn, store, created, itemData, undostack, stack, cresult, index,
                   macroDepth, mark, itemClass, staticdata, component, nwrites>>

\* The entities a caller gives to appendChild / insertChild of p: created
\* after p and in no child sequence.
Unattached(p) ==
    {item \in TreeEntities :
        /\ item > p
        /\ \A e \in TreeEntities : ChildPosition(children[e], item) = -1}

\* p.appendChild(item)
AppendChildCall ==
    \E p \in TreeEntities : \E item \in Unattached(p) :
        TreeCall("appendChild", p, Len(children[p]), item,
                 Append(children[p], item), "childAdded")

\* p.insertChild(position, item)
InsertChildCall ==
    \E p \in TreeEntities : \E item \in Unattached(p), position \in 0..Len(children[p]) :
        TreeCall("insertChild", p, position, item,
                 InsertChild(children[p], position, item), "childAdded")

\* p.removeChild(item) of a child of p
RemoveChildCall ==
    \E p \in TreeEntities : \E i \in 1..Len(children[p]) :
        LET item == children[p][i]
            position == ChildPosition(children[p], item)
        IN  TreeCall("removeChild", p, position, item,
                     RemovePosition(children[p], position), "childRemoved")

\* p.removePosition(position) of a position p has
RemovePositionCall ==
    \E p \in TreeEntities : \E position \in 0..(Len(children[p]) - 1) :
        TreeCall("removePosition", p, position, children[p][position + 1],
                 RemovePosition(children[p], position), "childRemoved")

\* A call on a tree entity that changes flags.
FlagCall(op, e, id, value, m) ==
    /\ nwrites' = nwrites + 1
    /\ store' = m.store
    /\ events' = m.events
    /\ result' = ResultNone
    /\ raised' = "none"
    /\ last' = [op |-> op, cmd |-> Args(e, id, value, FlagRole), pre |-> Snap(Cur)]
    /\ UNCHANGED <<children, par, conn, created, itemData, undostack, stack, cresult, index,
                   macroDepth, ncmds, mark, itemClass, staticdata, component>>

\* e.setFlags(id, value)
SetFlagsCall ==
    /\ nwrites < MaxFlagOps
    /\ \E e \in TreeEntities, id \in Cols, value \in FlagInputs :
           FlagCall("setFlags", e, id, value, EntitySetFlags(Cur, e, id, value))

\* e.insertFlags(value)
InsertFlagsCall ==
    /\ nwrites < MaxFlagOps
    /\ \E e \in TreeEntities, value \in FlagInputs :
           FlagCall("insertFlags", e, -1, value, TreeChangeFlags(Cur, e, "insert", value))

\* e.removeFlags(value)
RemoveFlagsCall ==
    /\ nwrites < MaxFlagOps
    /\ \E e \in TreeEntities, value \in FlagInputs :
           FlagCall("removeFlags", e, -1, value, TreeChangeFlags(Cur, e, "remove", value))

NextTree ==
    \/ AppendChildCall
    \/ InsertChildCall
    \/ RemoveChildCall
    \/ RemovePositionCall
    \/ SetFlagsCall
    \/ InsertFlagsCall
    \/ RemoveFlagsCall

SpecTree == InitTree /\ [][NextTree]_vars

\* --------------------------------------------------- entities of a list
\* AbstractDataItems as AbstractDataListModel.createItem makes them.  The
\* default value of the constructor's sdata parameter is one AbstractData
\* object, made when the class is defined; store[DefaultData] is what it holds.
DefaultData == 0

ListCreated == 2

\* AbstractDataItem.__init__: the CellStore object the new entity holds, given
\* the constructor's argument ("default" when there is none).
NewStaticData(e, sdata) == IF sdata = "default" THEN DefaultData ELSE e

InitShared ==
    /\ children = [e \in Entities |-> <<>>]
    /\ par = [e \in Entities |-> NoParent]
    /\ conn = [e \in Entities |-> 0]
    /\ created = 0
    /\ itemData = <<>>
    /\ store = [e \in Entities |-> EmptyData]
    /\ itemClass = [e \in Entities |-> "item"]
    /\ staticdata = [e \in Entities |-> e]
    /\ component = [e \in Entities |-> NoComponent]
    /\ nwrites = 0
    /\ result = ResultNone
    /\ undostack = FALSE
    /\ stack = <<>>
    /\ cresult = <<>>
    /\ index = 0
    /\ macroDepth = 0
    /\ ncmds = 0
    /\ events = <<>>
    /\ raised = "none"
    /\ mark = [phase |-> "none",
               pre |-> [children |-> children, par |-> par, store |-> store],
               post |-> [children |-> children, par |-> par, store |-> store]]
    /\ last = [op |-> "init", cmd |-> NoCommand,
               pre |-> [children |-> children, par |-> par, store |-> store]]

\* createItem(): AbstractDataItem() with the default arguments, as insertRows
\* calls it.
CreateItem ==
    /\ created < ListCreated
    /\ created' = created + 1
    /\ staticdata' = [staticdata EXCEPT ![created + 1] = NewStaticData(created + 1, "default")]
    /\ last' = [op |-> "createItem", cmd |-> Args(created + 1, -1, None, None),
                pre |-> Snap(Cur)]
    /\ result' = ResultValue(created + 1)
    /\ events' = <<>>
    /\ raised' = "none"
    /\ UNCHANGED <<children, par, conn, store, itemData, undostack, stack, cresult, index,
                   macroDepth, ncmds, mark, itemClass, component, nwrites>>

\* createItem(rawdata): AbstractDataItem(rawdata) with a list of column values.
CreateItemData ==
    /\ created < ListCreated
    /\ \E rawdata \in ItemData0 :
           store' = [store EXCEPT ![NewStaticData(created + 1, rawdata)] = BuildData(rawdata)]
    /\ created' = created + 1
    /\ staticdata' = [staticdata EXCEPT ![created + 1] = NewStaticData(created + 1, "list")]
    /\ last' = [op |-> "createItem", cmd |-> Args(created + 1, -1, None, None),
                pre |-> Snap(Cur)]
    /\ result' = ResultValue(created + 1)
    /\ events' = <<>>
    /\ raised' = "none"
    /\ UNCHANGED <<children, par, conn, itemData, undostack, stack, cresult, index,
                   macroDepth, ncmds, mark, itemClass, component, nwrites>>

\* e.setData(id, value, role) of an AbstractDataItem: the write goes to the
\* CellStore object the entity holds.
ItemSetDataCall ==
    /\ nwrites < MaxWrites
    /\ \E e \in 1..created, id \in Cols, value \in Values, role \in EditRoles :
           /\ store' = [store EXCEPT ![staticdata[e]] = ItemSetData(@, id, value, role)]
           /\ events' = ItemSetDataHooks(e, id, value, role)
           /\ last' = [op |-> "AbstractDataItem.setData",
                       cmd |-> Args(e, id, value, role), pre |-> Snap(Cur)]
    /\ nwrites' = nwrites + 1
    /\ result' = ResultTrue
    /\ raised' = "none"
    /\ UNCHANGED <<children, par, conn, created, itemData, undostack, stack, cresult, index,
                   macroDepth, ncmds, mark, itemClass, staticdata, component>>

\* e.data(id, role) of an AbstractDataItem
ItemDataCall ==
    \E e \in 1..created, id \in Cols, role \in EditRoles :
        ReadCall("AbstractDataItem.data", Args(e, id, None, role),
                 [raised |-> "none",
                  result |-> ResultValue(ItemData(store[staticdata[e]], id, role))])

NextShared ==
    \/ CreateItem
    \/ CreateItemData
    \/ ItemSetDataCall
    \/ ItemDataCall

SpecShared == InitShared /\ [][NextShared]_vars

\* ----------------------------------------------------------------- claims
\* The entities of a child sequence.
Range(seq) == {seq[i] : i \in 1..Len(seq)}

\* Whether some child sequence of the snapshot s holds the item.
Attached(s, item) == \E e \in Entities : item \in Range(s.children[e])

\* The entities below e, down to depth k.
RECURSIVE Below(_, _, _)
Below(s, e, k) ==
    IF k = 0
    THEN {}
    ELSE LET cs == Range(s.children[e])
         IN  cs \cup UNION {Below(s, c, k - 1) : c \in cs}

\* Every entity occurs at most once in at most one child sequence.
SingleOwner(s) ==
    \A e1 \in Entities, e2 \in Entities :
        \A i \in 1..Len(s.children[e1]), j \in 1..Len(s.children[e2]) :
            s.children[e1][i] = s.children[e2][j] => e1 = e2 /\ i = j

\* The parent back-reference of every child names the sequence it is in.
ParentAgrees(s) ==
    \A e \in Entities : \A i \in 1..Len(s.children[e]) : s.par[s.children[e][i]] = e

\* No entity reachable from the root is below itself.
Acyclic(s) ==
    \A e \in {Root} \cup Below(s, Root, NItems + 1) : e \notin Below(s, e, NItems + 1)

WellFormed(s) == SingleOwner(s) /\ ParentAgrees(s) /\ Acyclic(s)

Now == Snap(Cur)

\* C1: an InsertItemCommand of N >= 1 unattached entities at a position
\* 0 <= p <= rowCount(parent) of a well-formed tree, executed and then undone,
\* leaves the parent's child sequence as it was before the command and none
\* of the N entities attached.
C1_InsertUndoRoundTrip ==
    (/\ last.op = "undo"
     /\ mark.phase = "undone"
     /\ last.cmd.kind = "insert"
     /\ Len(last.cmd.items) >= 1
     /\ last.cmd.position <= Len(mark.pre.children[last.cmd.parentItem])
     /\ \A k \in 1..Len(last.cmd.items) : ~Attached(mark.pre, last.cmd.items[k])
     /\ WellFormed(mark.pre))
    => /\ children[last.cmd.parentItem] = mark.pre.children[last.cmd.parentItem]
       /\ \A k \in 1..Len(last.cmd.items) : ~Attached(Now, last.cmd.items[k])

\* The cell a SetCell member of a macro edits first holds the member's old
\* value.
MacroCellsRestored(members) ==
    \A k \in 1..Len(members) :
        (/\ members[k].kind = "set"
         /\ \A j \in 1..(k - 1) :
                ~(/\ members[j].kind = "set"
                  /\ members[j].item = members[k].item
                  /\ members[j].column = members[k].column
                  /\ members[j].role = members[k].role))
        => ItemData(store[members[k].item], members[k].column, members[k].role)
               = members[k].oldvalue

\* C2: one undo after endMacro of a macro in which k >= 2 commands were
\* executed on a well-formed tree leaves every child sequence and every
\* edited cell as it was before beginMacro.
C2_MacroUndoAtomic ==
    (/\ last.op = "undo"
     /\ mark.phase = "undone"
     /\ last.cmd.kind = "macro"
     /\ Len(last.cmd.members) >= 2
     /\ WellFormed(mark.pre))
    => /\ children = mark.pre.children
       /\ MacroCellsRestored(last.cmd.members)

\* C3: for an AbstractSetDataCommand built with the cell's current value as
\* old and another value as new, undo after redo leaves the entity as it was
\* before redo (every data(column, role) and size()), and redo after undo
\* after redo leaves the store the first redo produced.
C3_SetCellRoundTrip ==
    /\ (last.op = "undo" /\ mark.phase = "undone" /\ last.cmd.kind = "set")
       => LET e == last.cmd.item
          IN  /\ \A c \in Cols, r \in Roles :
                     ItemData(store[e], c, r) = ItemData(mark.pre.store[e], c, r)
              /\ ItemSize(store[e]) = ItemSize(mark.pre.store[e])
    /\ (last.op = "redo" /\ mark.phase = "reapplied" /\ last.cmd.kind = "set")
       => store[last.cmd.item] = mark.post.store[last.cmd.item]

IsBegin(e) == e.ev \in {"beginInsert", "beginRemove"}

IsChange(e) == e.ev \in {"attach", "detach"}

\* The changes of child sequences that follow the notification at b before
\* any other notification.
ChangesIn(b) ==
    {i \in (b + 1)..Len(events) :
        \A j \in (b + 1)..i : IsChange(events[j])}

\* The notification that follows the changes of the bracket opened at b.
ClosedBy(b) ==
    LET j == b + Cardinality(ChangesIn(b)) + 1
    IN  /\ j <= Len(events)
        /\ events[j].ev = IF events[b].ev = "beginInsert" THEN "endInsert" ELSE "endRemove"

\* C4: in every handler, every change of a child sequence lies between an
\* about-to-insert/remove notification for that parent and its matching
\* inserted/removed notification, and the rows attached or detached inside a
\* bracket are exactly the rows firstRow..lastRow it announced.
C4_BracketContract ==
    /\ \A i \in 1..Len(events) :
           IsChange(events[i]) =>
               \E b \in 1..(i - 1) :
                   /\ IsBegin(events[b])
                   /\ i \in ChangesIn(b)
                   /\ events[b].parent = events[i].parent
                   /\ events[b].ev = IF events[i].ev = "attach"
                                     THEN "beginInsert" ELSE "beginRemove"
    /\ \A b \in 1..Len(events) :
           IsBegin(events[b]) =>
               /\ ClosedBy(b)
               /\ {events[i].first : i \in ChangesIn(b)}
                      = events[b].first..events[b].last

\* C5: removeRows(p, c, parent) with c >= 1 and p + c <= n on a well-formed
\* tree leaves the parent with its former children without the rows
\* p..p+c-1, in their former order, and the entities of those rows attached
\* nowhere.
C5_RemoveRunEffect ==
    (last.op = "removeRows" /\ WellFormed(last.pre))
    => LET parent == last.cmd.parentItem
           old == last.pre.children[parent]
           p == last.cmd.position
           c == Len(last.cmd.items)
       IN  /\ children[parent] = SubSeq(old, 1, p) \o SubSeq(old, p + c + 1, Len(old))
           /\ Len(children[parent]) = Len(old) - c
           /\ \A k \in (p + 1)..(p + c) : ~Attached(Now, old[k])

\* C6: redo of an InsertItemCommand of len entities at position p <= n under
\* a parent with n children raises nothing, opens one insert bracket
\* (parent, p, p + len - 1), attaches the i-th entity at row p + i in the
\* given order, closes the bracket, and leaves the former rows p..n-1 shifted
\* up by len and rowCount(parent) = n + len.
C6_InsertRunEffect ==
    (/\ last.cmd.kind = "insert"
     /\ last.op \in {"appendItem", "insert", "insertRows", "redo"}
     /\ last.cmd.position <= Len(last.pre.children[last.cmd.parentItem]))
    => LET parent == last.cmd.parentItem
           old == last.pre.children[parent]
           p == last.cmd.position
           len == Len(last.cmd.items)
           n == Len(old)
       IN  /\ raised = "none"
           /\ Len(events) = len + 2
           /\ events[1].ev = "beginInsert"
           /\ events[1].parent = parent
           /\ events[1].first = p
           /\ events[1].last = p + len - 1
           /\ \A i \in 0..(len - 1) :
                  /\ events[i + 2].ev = "attach"
                  /\ events[i + 2].parent = parent
                  /\ events[i + 2].item = last.cmd.items[i + 1]
                  /\ events[i + 2].first = p + i
                  /\ children[parent][p + i + 1] = last.cmd.items[i + 1]
           /\ events[len + 2].ev = "endInsert"
           /\ Len(children[parent]) = n + len
           /\ \A k \in 1..p : children[parent][k] = old[k]
           /\ \A k \in (p + 1)..n : children[parent][k + len] = old[k]

\* A run of two entities inserted in front of an existing child.
C6_Witness ==
    /\ last.op = "insert"
    /\ last.cmd.kind = "insert"
    /\ Len(last.cmd.items) = 2
    /\ last.cmd.position = 0
    /\ Len(last.pre.children[last.cmd.parentItem]) >= 1

\* C7: for an InsertItemCommand or RemoveItemCommand executed on a
\* well-formed tree and retained on the log, redo after undo leaves the child
\* sequences the first redo produced.
C7_RedoRepeatable ==
    (/\ last.op = "redo"
     /\ mark.phase = "reapplied"
     /\ last.cmd.kind \in {"insert", "remove"}
     /\ \A k \in 1..Len(last.cmd.items) :
            last.cmd.kind = "insert" => ~Attached(mark.pre, last.cmd.items[k])
     /\ WellFormed(mark.pre))
    => children = mark.post.children

\* C8: in every reachable state of the tree mediator the child graph
\* reachable from the root is acyclic, every entity occurs at most once in
\* at most one child sequence, and its parent back-reference names that
\* parent.
C8_TreeOwnership == WellFormed(Now)

C10_WriteReadConsistency ==
    last.op = "Entity.setData" =>
        LET e == last.cmd.item
        IN  EntityData(itemClass[e], store[e], component[e], last.cmd.column,
                       last.cmd.role) = last.cmd.newvalue

\* C11: after e.setData(c, v) with the role omitted, e.data(c) with the role
\* omitted returns v.
C11_DefaultAspectAgreement ==
    last.op = "Entity.setData default" =>
        LET e == last.cmd.item
        IN  EntityData(itemClass[e], store[e], component[e], last.cmd.column,
                       DataDefaultRole) = last.cmd.newvalue

C13_ReadsNeverRaise ==
    last.op \in {"Entity.data", "Entity.__getitem__", "Entity.hasData", "Entity.flags"}
        => raised = "none"

\* C14: every e.setData(column, value, role) emits dataChanging(column, role),
\* then writes, then emits dataChanged(column, role) and returns True, for
\* plain items and for the NAME and VALUE columns of a PropertyItem, whether
\* or not the value equals the stored one.
C14_SetDataHookOrder ==
    last.op \in {"Entity.setData", "Entity.setData default"} =>
        LET e == last.cmd.item
            c == last.cmd.column
            a == last.cmd.role
            n == Len(events)
        IN  /\ n >= 3
            /\ events[n - 2] = Hook("dataChanging", e, c, a)
            /\ events[n - 1] \in {Hook("set", e, c, a), Hook("fset", e, c, a)}
            /\ events[n] = Hook("dataChanged", e, c, a)
            /\ result = ResultTrue
            /\ raised = "none"

\* C15: a structural mutation that an observer calls on the mediator while a
\* bracket is open is rejected or deferred: no about-to-insert/remove
\* notification is followed by a second one before anything else.
C15_ReentrantMutationRejected ==
    \A b \in 1..(Len(events) - 1) :
        IsBegin(events[b]) => ~IsBegin(events[b + 1])

\* C18: the undo action with no entry to undo, and the redo action with no
\* entry to redo, change neither the log nor the tree nor any cell, and
\* raise nothing.
C18_EmptyLogNoOp ==
    [][((last'.op \in {"undo", "undo none"} /\ index = 0)
        \/ (last'.op \in {"redo", "redo none"} /\ index = Len(stack)))
       => /\ stack' = stack
          /\ index' = index
          /\ macroDepth' = macroDepth
          /\ children' = children
          /\ par' = par
          /\ store' = store
          /\ conn' = conn
          /\ raised' = "none"]_vars

\* The undo action on a log whose entries are all undone, and the redo
\* action on a log with nothing undone.
C18_Witness ==
    \/ last.op = "undo none" /\ index = 0 /\ Len(stack) > 0
    \/ last.op = "redo none" /\ index = Len(stack) /\ index > 0

\* C17: executeCommand on a mediator without a log runs command.redo() once,
\* stores the command nowhere and, when the redo raised nothing, returns
\* command.result(): for an insertion the handles of the inserted items.
C17_ExecuteWithoutLog ==
    [][(~undostack /\ last'.op = "appendItem")
       => LET cmd == last'.cmd
              m0 == [Cur EXCEPT !.store = last'.pre.store]
              m == CommandRedo(m0, cmd)
              post == [children |-> children', par |-> par', conn |-> conn',
                       store |-> store', events |-> events', raised |-> raised']
          IN  /\ children' = m.children
              /\ par' = m.par
              /\ store' = m.store
              /\ conn' = m.conn
              /\ events' = m.events
              /\ stack' = <<>>
              /\ index' = 0
              /\ macroDepth' = 0
              /\ raised' = "none" =>
                     result' = ResultHandles([k \in 1..Len(cmd.items) |->
                                                ItemIndex(post, cmd.items[k])])]_vars

\* A second item appended to the root of a mediator without a log.
C17_Witness ==
    /\ ~undostack
    /\ last.op = "appendItem"
    /\ raised = "none"
    /\ Len(children[Root]) >= 2
    /\ Len(result.handles) = 1
    /\ stack = <<>>

\* The operations that hand a command to executeCommand.
ExecuteOps == {"appendItem", "insert", "insertRows", "removeRows", "removeItem",
               "clear", "setData"}

\* C16: executeCommand with a log attached and no macro open runs
\* command.redo() once and makes the command the top entry of the log in
\* place of the undone entries; a redo() right after it changes nothing, and
\* an undo() right after it puts the tree and the cells back as they were
\* before the command.
C16_ExecuteWithLog ==
    [][/\ (undostack /\ macroDepth = 0 /\ last'.op \in ExecuteOps
           /\ last'.cmd.kind # "none")
          => LET cmd == last'.cmd
                 m == CommandRedo([Cur EXCEPT !.store = last'.pre.store], cmd)
             IN  /\ children' = m.children
                 /\ par' = m.par
                 /\ store' = m.store
                 /\ stack' = Append(SubSeq(stack, 1, index), Pushed(cmd))
                 /\ index' = Len(stack')
       /\ (last.op \in ExecuteOps /\ mark.phase = "applied"
           /\ last'.op \in {"redo", "redo none"})
          => /\ children' = children
             /\ par' = par
             /\ store' = store
             /\ stack' = stack
             /\ index' = index
       /\ (last.op \in ExecuteOps /\ mark.phase = "applied" /\ raised = "none"
           /\ WellFormed(mark.pre) /\ last'.op = "undo")
          => /\ children' = mark.pre.children
             /\ par' = mark.pre.par
             /\ store' = mark.pre.store
             /\ index' = index - 1]_vars

\* The handle a Mediator.setData call was given.
CalledHandle(call) ==
    IF call.position = -1 THEN NullIndex
    ELSE CreateIndex(call.position, call.column, call.item)

\* C19: the tree mediator's setData on the null handle returns False for any
\* value and role, changes no entity (the root included), pushes nothing on
\* the log and raises nothing.
C19_SetDataNullHandle ==
    [][(last'.op = "Mediator.setData" /\ ~IsValid(CalledHandle(last'.cmd)))
       => /\ result' = ResultFalse
          /\ raised' = "none"
          /\ store' = store
          /\ children' = children
          /\ par' = par
          /\ stack' = stack
          /\ index' = index]_vars

\* C20: the mediator's setData(h, v, a) on a valid handle with v different
\* from data(h, a) returns True and leaves data(h, a) = v, raising nothing;
\* with a log attached and no macro open the log gains one entry, a
\* set-data command whose undo gives data(h, a) its old value again.
C20_SetDataValidHandle ==
    [][LET call == last'.cmd
           h == CalledHandle(call)
           post == [Cur EXCEPT !.store = store']
       IN  (/\ last'.op = "Mediator.setData"
            /\ IsValid(h)
            /\ call.newvalue # MediatorData(Cur, h, call.role))
           => /\ result' = ResultTrue
              /\ raised' = "none"
              /\ MediatorData(post, h, call.role) = call.newvalue
              /\ (undostack /\ macroDepth = 0)
                 => /\ Len(stack') = index + 1
                    /\ index' = index + 1
                    /\ stack'[index'].kind = "set"
                    /\ MediatorData(SetDataUndo(post, stack'[index']), h, call.role)
                           = MediatorData(Cur, h, call.role)]_vars

\* C21: the mediator's setData with the value the cell already holds for the
\* role produces no command, leaves the log and every cell as they were and
\* returns without an error.
C21_DeadEdit ==
    [][LET call == last'.cmd
           h == CalledHandle(call)
       IN  (/\ last'.op = "Mediator.setData"
            /\ IsValid(h)
            /\ call.newvalue = MediatorData(Cur, h, call.role))
           => /\ raised' = "none"
              /\ store' = store
              /\ stack' = stack
              /\ index' = index]_vars

\* The handle a caller got for an entity before the last operation.
HandleBefore(e) ==
    CreateIndex(ChildPosition(last.pre.children[last.pre.par[e]], e), 0, e)

\* C22: for the null handle, for a row or column out of range and for the
\* handle of an entity that the last operation removed from the tree, index
\* and parent return the null handle and raise nothing.
C22_InvalidHandlesNeverRaise ==
    /\ MediatorParent(Cur, NullIndex) = [raised |-> "none", handle |-> NullIndex]
    /\ \A p \in ParentIndexes :
           /\ Index(Cur, RowCount(Cur, p), 0, p) = NullIndex
           /\ Index(Cur, 0, ColumnCount(Cur, p), p) = NullIndex
           /\ Index(Cur, -1, 0, p) = NullIndex
    /\ last.op \in {"removeRows", "removeItem"} =>
           \A k \in 1..Len(last.cmd.items) :
               LET e == last.cmd.items[k]
               IN  (e # Root /\ last.pre.par[e] # NoParent /\ par[e] = NoParent)
                   => MediatorParent(Cur, HandleBefore(e))
                          = [raised |-> "none", handle |-> NullIndex]

Reachable(s) == Below(s, Root, NItems + 1)

\* C24: after removeRows or removeItem of rows p..p+c-1 of a parent in a
\* well-formed tree, neither the entities of those rows nor their former
\* descendants are reachable from the root, and every other entity that was
\* reachable still is.
C24_CascadeRemoval ==
    (/\ last.op \in {"removeRows", "removeItem"}
     /\ last.cmd.kind = "remove"
     /\ WellFormed(last.pre)
     /\ last.cmd.position + Len(last.cmd.items)
            <= Len(last.pre.children[last.cmd.parentItem]))
    => LET old == last.pre.children[last.cmd.parentItem]
           removed == {old[last.cmd.position + k] : k \in 1..Len(last.cmd.items)}
           subtree == removed \cup UNION {Below(last.pre, e, NItems + 1) : e \in removed}
       IN  /\ Reachable(Now) \cap subtree = {}
           /\ Reachable(last.pre) \ subtree \subseteq Reachable(Now)

\* C25: removeItem(item) with the default parent, as the scene editor calls
\* it, on an entity attached at row 0 of any parent of a well-formed tree
\* (where RemoveItemCommand.redo removes the row it is given) detaches that
\* entity from its parent and no other entity.
C25_RemoveItemRemovesItem ==
    (/\ last.op = "removeItem"
     /\ last.cmd.kind = "remove"
     /\ last.cmd.parentItem = Root
     /\ last.cmd.position = 0
     /\ WellFormed(last.pre)
     /\ Attached(last.pre, last.cmd.item))
    => LET item == last.cmd.item
           A == last.pre.par[item]
       IN  /\ children[A] = SubSeq(last.pre.children[A], 2, Len(last.pre.children[A]))
           /\ \A e \in Entities \ {A} : children[e] = last.pre.children[e]
           /\ par[item] = NoParent

\* C26: insertRows(p, rows, parent) with 0 <= p <= rowCount(parent) and
\* rows >= 1 raises nothing, adds exactly rows entities to the parent and
\* announces them in one bracket whose lastRow is firstRow + rows - 1.
C26_InsertRowsCount ==
    last.op = "insertRows" =>
        \A rows \in InsertRowsInput :
            /\ raised = "none"
            /\ Len(children[Root]) = Len(last.pre.children[Root]) + rows
            /\ Len(events) >= 1
            /\ events[1].ev = "beginInsert"
            /\ events[1].last = events[1].first + rows - 1

\* The filter a proxy call was made with.
CalledFilter == FilterConfig(last.cmd.items, last.cmd.newvalue, last.cmd.members[1])

\* Whether the cells of the entity e itself satisfy the predicate of filter f:
\* every column lambda accepts its cell, and the pattern is in the key column
\* (in some column when the key column is -1).
OwnCellsSatisfy(s, f, e) ==
    /\ \A i \in 1..Len(f.columnFilter) :
           FilterCondition(ItemData(s.store[e], f.columnFilter[i], f.role))
    /\ IF f.keyColumn = -1
       THEN f.regexp = "" \/ \E c \in Cols :
                Contains(ToText(ItemData(s.store[e], c, f.role)), f.regexp)
       ELSE Contains(ToText(ItemData(s.store[e], f.keyColumn, f.role)), f.regexp)

\* C27: over a finite well-formed tree whose entities all have a column, the
\* tree filter accepts a row exactly when the row's own cells satisfy the
\* predicate or the cells of at least one of its descendants, at any depth, do.
C27_FilterInclusion ==
    (/\ last.op = "filterAcceptsRow"
     /\ WellFormed(last.pre)
     /\ \A e \in Entities : ItemSize(last.pre.store[e]) >= 1)
    => LET e == last.cmd.item
       IN  result = ResultTrue
           <=> \E d \in {e} \cup Below(last.pre, e, NItems) :
                   OwnCellsSatisfy(last.pre, CalledFilter, d)

\* C28: ColumnFilterDataProxyModel.data returns the real value of the cell
\* when no filter is set and when the cells of the row satisfy the predicate,
\* returns something else only for a row that fails the predicate, and leaves
\* the cells of the source model as they were.
C28_CellOverride ==
    last.op = "ColumnFilterDataProxyModel.data" =>
        LET e == last.cmd.item
            f == CalledFilter
            real == ItemData(last.pre.store[e], last.cmd.column, last.cmd.role)
        IN  /\ (f.regexp = "" \/ OwnCellsSatisfy(last.pre, f, e)) => result = ResultValue(real)
            /\ result # ResultValue(real) => ~OwnCellsSatisfy(last.pre, f, e)
            /\ store = last.pre.store

\* The bits of flags(c) of the tree entity d.
FlagsOfColumn(d, c) == FlagsBits(EntityFlags("item", store[d], NoComponent, c))

\* C29: after e.insertFlags(v), flags(c) holds every bit of v for every
\* column c of e and of every descendant of e; after e.removeFlags(v),
\* flags(c) holds no bit of v for every such column.
C29_FlagInsertionRemoval ==
    last.op \in {"insertFlags", "removeFlags"} =>
        LET e == last.cmd.item
            v == FlagsBits(last.cmd.newvalue)
        IN  \A d \in {e} \cup Below(Now, e, NItems) :
                \A c \in 0..(ItemSize(store[d]) - 1) :
                    IF last.op = "insertFlags"
                    THEN v \subseteq FlagsOfColumn(d, c)
                    ELSE v \cap FlagsOfColumn(d, c) = {}

\* C30: after p.appendChild(item) or p.insertChild(position, item) the
\* parent back-reference of item is p, after p.removeChild(item) or
\* p.removePosition(position) the back-reference of the removed item is
\* cleared, and each call emits childAdded / childRemoved exactly once, with
\* that item.
C30_ParentBackReference ==
    LET p == last.cmd.parentItem
        item == last.cmd.item
    IN  /\ last.op \in {"appendChild", "insertChild"} =>
               /\ par[item] = p
               /\ events = <<TreeHook("childAdded", p, item)>>
        /\ last.op \in {"removeChild", "removePosition"} =>
               /\ par[item] = NoParent
               /\ events = <<TreeHook("childRemoved", p, item)>>

\* C31: e1.setData(c, v, a) leaves e2.data(c', a') unchanged for every other
\* entity e2, every column c' and every aspect a', however the two entities
\* were constructed.
C31_ExclusiveCellStore ==
    last.op = "AbstractDataItem.setData" =>
        \A e2 \in (1..created) \ {last.cmd.item} : \A c \in Cols, a \in Roles :
            ItemData(store[staticdata[e2]], c, a)
                = ItemData(last.pre.store[staticdata[e2]], c, a)

\* The detach steps among the notifications of the last handler.
Detached == {i \in 1..Len(events) : events[i].ev = "detach"}

\* C32: a removeItem call for an entity that is not in the child sequence of
\* the parent it names, and a removal that asks a parent for a position it
\* does not have, raise instead of returning normally: a removal that
\* returned normally was given a child of the parent and detached every row
\* it was asked to.
C32_StructuralViolationFails ==
    (/\ last.op \in {"removeItem", "removeRows"}
     /\ last.cmd.kind = "remove"
     /\ raised = "none")
    => /\ last.op = "removeItem" =>
              last.cmd.item \in Range(last.pre.children[last.cmd.parentItem])
       /\ Cardinality(Detached) = Len(last.cmd.items)

\* C33: when a handler opens a remove bracket for rows firstRow..lastRow of
\* a parent, the steps that follow detach rows lastRow, lastRow - 1, ...,
\* firstRow of that parent in this order, each the entity that occupied the
\* row when the bracket opened, and the bracket closes after them.
C33_DescendingDetachment ==
    (/\ Len(events) >= 1
     /\ events[1].ev = "beginRemove"
     /\ events[1].first <= events[1].last
     /\ raised = "none")
    => LET firstRow == events[1].first
           lastRow == events[1].last
           parent == events[1].parent
           n == lastRow - firstRow + 1
       IN  /\ Len(events) >= n + 2
           /\ \A k \in 0..(n - 1) :
                  /\ events[2 + k].ev = "detach"
                  /\ events[2 + k].parent = parent
                  /\ events[2 + k].first = lastRow - k
                  /\ lastRow - k < Len(last.pre.children[parent])
                  /\ events[2 + k].item = last.pre.children[parent][lastRow - k + 1]
           /\ events[n + 2].ev = "endRemove"

\* C34: when the body of an UndoMacro scope leaves with an exception after
\* commands were executed in it, the scope's exit closes the macro (the depth
\* is the one before the scope), the exception goes on to the caller, the
\* commands executed stay applied, and the macro that holds them is the one
\* new log entry.
C34_ExceptionInMacro ==
    [][(/\ last'.op = "endMacro"
        /\ macroDepth = 1
        /\ raised # "none"
        /\ raised' # "none"
        /\ Len(stack[Len(stack)].members) >= 1)
       => /\ macroDepth' = 0
          /\ raised' = raised
          /\ children' = children /\ par' = par /\ store' = store
          /\ index' = index + 1
          /\ Len(stack') = index'
          /\ stack'[index'] = stack[Len(stack)]
          /\ stack'[index'].kind = "macro"
          /\ SubSeq(stack', 1, index) = SubSeq(stack, 1, index)]_vars

C34_Witness ==
    /\ last.op = "endMacro"
    /\ raised # "none"
    /\ macroDepth = 0
    /\ Len(last.cmd.members) >= 1
    /\ index = Len(stack)

\* C35: in a well-formed tree every entity reachable from the root is
\* connected to the mediator exactly once, and no other entity (one that was
\* removed, or a descendant of one that was removed) is connected to it.
C35_ObserverDeregistration ==
    WellFormed(Now) =>
        \A e \in 1..created : conn[e] = IF e \in Reachable(Now) THEN 1 ELSE 0

\* C36: outside a macro scope, result() of every command of the log is
\* non-None exactly while its entry is applied; executeCommand returns that
\* result, and for an InsertItemCommand it is the list of the handles of the
\* inserted entities, the i-th resolving to the i-th entity at row
\* position + i of the parent.
C36_CommandResult ==
    /\ macroDepth = 0 =>
           \A i \in 1..Len(stack) : \A j \in 1..Len(cresult[i]) :
               (cresult[i][j] >= 1) <=> (i <= index)
    /\ (last.op \in ExecuteOps /\ last.cmd.kind \in {"insert", "remove", "set"}) =>
           result # ResultNone
    /\ (last.op \in ExecuteOps /\ last.cmd.kind = "insert") =>
           /\ Len(result.handles) = Len(last.cmd.items)
           /\ \A k \in 1..Len(last.cmd.items) :
                  LET h == result.handles[k]
                  IN  /\ Item(h) = last.cmd.items[k]
                      /\ h.row = last.cmd.position + k - 1
                      /\ Child(Cur, last.cmd.parentItem, h.row) = last.cmd.items[k]

\* C37: clear() on a mediator with a log and n root children leaves the root
\* without children, with one remove notification (root, 0, n - 1), and
\* outside a macro scope adds one log entry as the top entry, whose undo
\* re-attaches the former root children in their former order; on a mediator
\* without root children it changes nothing and builds no command.
C37_Clear ==
    last.op = "clear" =>
        LET old == last.pre.children[Root]
            n == Len(old)
        IN  IF n = 0
            THEN /\ children = last.pre.children
                 /\ events = <<>>
                 /\ last.cmd = NoCommand
            ELSE /\ children[Root] = <<>>
                 /\ Cardinality({i \in 1..Len(events) : events[i].ev = "beginRemove"}) = 1
                 /\ events[1].ev = "beginRemove"
                 /\ events[1].parent = Root
                 /\ events[1].first = 0
                 /\ events[1].last = n - 1
                 /\ last.cmd.kind = "remove"
                 /\ macroDepth = 0 =>
                        /\ index = Len(stack)
                        /\ index >= 1
                        /\ stack[index] = Pushed(last.cmd)
                        /\ CommandUndo(Cur, stack[index]).children[Root] = old

\* C38: the RemoveItemCommand that removeRows(position, count, parent) builds
\* holds the entities of the rows position..position+count-1 of that parent
\* in row order: never the root, never an entity that is not a child of the
\* parent.
C38_RemoveRunSnapshot ==
    (last.op = "removeRows" /\ last.cmd.kind = "remove") =>
        LET old == last.pre.children[last.cmd.parentItem]
            p == last.cmd.position
            items == last.cmd.items
        IN  \A k \in 1..Len(items) :
                /\ items[k] # Root
                /\ p + k <= Len(old)
                /\ items[k] = old[p + k]

\* C39: the redo, the undo and the repeated redo of a single
\* AbstractSetDataCommand change no pair of any store but the (role, column)
\* pair of the command's entity; no operation of the mediator takes a key
\* away from a store or lowers its length, and the length is the number of
\* display columns that held a key before the operation or were written by
\* it.
C39_SetFrameAndLength ==
    \A e \in 0..created :
        LET before == last.pre.store[e]
        IN  /\ last.cmd.kind = "set" =>
                   \A r \in Roles, c \in Cols :
                       <<e, r, c>> # <<last.cmd.item, last.cmd.role, last.cmd.column>>
                           => store[e][r][c] = before[r][c]
            /\ \A r \in Roles, c \in Cols :
                   before[r][c] # Absent => store[e][r][c] # Absent
            /\ DataLen(store[e]) >= DataLen(before)
            /\ DataLen(store[e]) =
                   Cardinality({c \in Cols : before[DisplayRole][c] # Absent
                                                \/ store[e][DisplayRole][c] # before[DisplayRole][c]})

\* The undo of a write to a display column that had no key: the key stays,
\* holding None, and the length stays 1.
C39_Witness ==
    /\ last.op = "undo"
    /\ last.cmd.kind = "set"
    /\ last.cmd.role = DisplayRole
    /\ last.pre.store[last.cmd.item][DisplayRole][last.cmd.column] = "a"
    /\ store[last.cmd.item][DisplayRole][last.cmd.column] = None
    /\ DataLen(store[last.cmd.item]) = 1

\* C40: ColumnFilterProxyModel.filterAcceptsRow(row, parent) on a well-formed
\* tree whose entities all have a column accepts the row exactly when every
\* column lambda holds on the cell the entity at (row, parent) stores in the
\* lambda's column under the filter role and the base filter accepts the row.
C40_ColumnFilterOwnCells ==
    (/\ last.op = "ColumnFilterProxyModel.filterAcceptsRow"
     /\ WellFormed(last.pre)
     /\ \A e \in Entities : ItemSize(last.pre.store[e]) >= 1)
    => LET e == last.cmd.item
           f == CalledFilter
       IN  result = ResultTrue
           <=> /\ \A i \in 1..Len(f.columnFilter) :
                      FilterCondition(ItemData(last.pre.store[e], f.columnFilter[i], f.role))
               /\ BaseFilterAcceptsRow(Cur, f, last.cmd.position,
                                       ItemIndex(Cur, last.cmd.parentItem))
====
